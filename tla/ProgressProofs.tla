---------------------------- MODULE ProgressProofs ----------------------------
(***************************************************************************)
(* Theorems about Progress, for any lanes, workers, totals and bounds.     *)
(* What concerns Python needs a stop() that one thread calls and whose     *)
(* join does not time out; the other lanes need no assumption.             *)
(***************************************************************************)
EXTENDS Progress, FiniteSetTheorems, TLAPS

\* In Python, one thread stops the tracker and join() waits for the loop.
StopsInTurn == "python" \in Lanes => ~JoinTimesOut /\ \A r, s \in Stoppers : r = s

\* Each thread is at a place of its own code, as its lane has it.
PlacesFit ==
    /\ \A w \in Workers : pc[w] \in {"idle", "counting"}
    /\ pc[Loop] \in {"wait", "exited"} \cup Ticking
    /\ \A s \in Stoppers : pc[s] \in {"idle", "set", "join", "tick", "returned"} \cup Ticking
    /\ \A t \in Threads :
         /\ pc[t] \in {"rate", "remember", "set", "join"} => lane = "python"
         /\ pc[t] \in {"counting", "tick"} \cup Ticking => lane # "node"

\* Workers between the two statements of inc().
Counting == {w \in Workers : pc[w] = "counting"}

\* The counter is behind by the workers that have not counted yet.
CountFits == IsFiniteSet(Counting) /\ counter + Cardinality(Counting) = processed

\* stop() ticks only when the loop has ended, and returns when it has ticked.
TurnsFit ==
    /\ cancelled => lane = "go"
    /\ lane = "python" =>
         /\ pc[Loop] = "exited" => stopping
         /\ \A s \in Stoppers :
              /\ stopping => pc[s] \notin {"idle", "set"}
              /\ pc[s] \in {"join", "tick", "returned"} \cup Ticking => stopping
              /\ pc[s] \in {"tick", "returned"} \cup Ticking => pc[Loop] = "exited"
    /\ lane = "node" =>
         /\ stopping <=> pc[Loop] = "exited"
         /\ \A s \in Stoppers : pc[s] = "returned" => stopping

\* What a tick has read is not older than what the last one remembered.
RatedFits ==
    /\ lastProcessed <= processed
    /\ lane # "python" => rated <= lastProcessed
    /\ \A t \in Threads :
         /\ pc[t] \in Ticking \ {"read"} => loc[t].processed <= processed
         /\ pc[t] \in {"rate", "remember"} => lastProcessed <= loc[t].processed
         /\ pc[t] = "remember" => rated <= loc[t].processed
    /\ NoItemRatedTwice

\* The gauges that a tick has written are of the progress and the rate it goes by.
GaugesFit ==
    lane # "go" =>
      /\ \A t \in Threads :
           /\ pc[t] \in {"show", "eta"} =>
                remaining = Remaining(loc[t].total, loc[t].processed)
           /\ pc[t] = "eta" => shownRate = loc[t].rate
      /\ ~Updating => shownEta = (shownRate /\ remaining > 0)

\* Unless progress was reported since, the tick of stop() has the last of it.
FlushFits ==
    ~late =>
      /\ lane = "python" =>
           \A s \in Stoppers :
              /\ pc[s] \in Ticking \ {"read"} =>
                   loc[s].processed = processed /\ loc[s].total = total
              /\ pc[s] = "returned" => remaining = Remaining(total, processed)
      /\ lane = "node" /\ stopping => remaining = Remaining(total, processed)

\* What every step keeps.
ProgressInv ==
    /\ ProgressTypeOK /\ PlacesFit /\ CountFits
    /\ TurnsFit /\ RatedFits /\ GaugesFit /\ FlushFits

-----------------------------------------------------------------------------
(* The operators.                                                          *)

\* What the locals of a thread are.
LocalsType ==
    [now : 0..clock, processed : 0..MaxProcessed, total : Totals \cup {0}, rate : BOOLEAN]

\* The locals of a thread are typed.
LEMMA LocalsFacts ==
  ASSUME ProgressTypeOK, NEW t \in Threads
  PROVE  /\ loc[t] \in LocalsType
         /\ loc[t].now \in 0..clock /\ loc[t].processed \in 0..MaxProcessed
         /\ loc[t].processed \in Nat /\ loc[t].total \in Nat /\ loc[t].rate \in BOOLEAN
  <1>1. loc[t] \in LocalsType
    BY DEF ProgressTypeOK, LocalsType
  <1>2. /\ loc[t].now \in 0..clock /\ loc[t].processed \in 0..MaxProcessed
        /\ loc[t].total \in Totals \cup {0} /\ loc[t].rate \in BOOLEAN
    BY <1>1 DEF LocalsType
  <1>3. Totals \cup {0} \subseteq Nat /\ 0..MaxProcessed \subseteq Nat
    BY ProgressAssumption
  <1>4. loc[t].total \in Nat /\ loc[t].processed \in Nat
    BY <1>2, <1>3, Zenon
  <1> QED
    BY <1>1, <1>2, <1>4, Zenon

\* What remains is never negative.
LEMMA RemainingType ==
  ASSUME NEW n \in Nat, NEW p \in Nat
  PROVE  Remaining(n, p) \in Nat
  BY DEF Remaining

\* Whether there is a rate is a Boolean.
LEMMA SmoothedType ==
  ASSUME rate \in BOOLEAN, NEW p, NEW now, NEW whole \in BOOLEAN
  PROVE  Smoothed(p, now, whole) \in BOOLEAN
  <1>1. (p > lastProcessed \/ (rate /\ ~whole)) \in BOOLEAN
    OBVIOUS
  <1> QED
    BY <1>1, Zenon DEF Smoothed

-----------------------------------------------------------------------------
(* Types and places need no assumption.                                    *)

\* A tick of Node keeps the types of what it writes.
LEMMA NodeTickType ==
  ASSUME ProgressTypeOK, NEW now \in {clock, clock + 1}, NEW whole \in BOOLEAN,
         NodeTick(now, whole), stopping' \in BOOLEAN, pc' \in [Threads -> Places]
  PROVE  ProgressTypeOK'
  <1> DEFINE r == Smoothed(processed, now, whole)
             left == Remaining(total, processed)
  <1>1. r \in BOOLEAN
    BY SmoothedType DEF ProgressTypeOK
  <1>2. left \in Nat
    <2>1. total \in Nat /\ processed \in Nat
      BY ProgressAssumption DEF ProgressTypeOK
    <2> QED
      BY <2>1, RemainingType
  <1> HIDE DEF r, left
  <1>3. EtaKnown(r, left) \in BOOLEAN
    BY <1>1 DEF EtaKnown
  <1>4. /\ clock' = now /\ lastTick' = now
        /\ rate' = r /\ shownRate' = r /\ remaining' = left /\ shownEta' = EtaKnown(r, left)
        /\ lastProcessed' = processed
        /\ rated' = rated + TakenIn(processed, now)
        /\ UNCHANGED <<lane, processed, total, cancelled, counter, loc, late>>
    BY DEF NodeTick, Reads, Remembered, r, left
  <1>5. loc' \in [Threads -> LocalsType']
    <2>1. 0..clock \subseteq 0..now
      BY DEF ProgressTypeOK
    <2>2. LocalsType \subseteq LocalsType'
      BY <1>4, <2>1 DEF LocalsType
    <2> QED
      BY <1>4, <2>2 DEF ProgressTypeOK, LocalsType
  <1> QED
    BY <1>1, <1>2, <1>3, <1>4, <1>5 DEF ProgressTypeOK, TakenIn, LocalsType

\* Each step keeps the types.
LEMMA TypeStep == ProgressTypeOK /\ [Next]_vars => ProgressTypeOK'
  <1> SUFFICES ASSUME ProgressTypeOK, [Next]_vars
               PROVE  ProgressTypeOK'
    OBVIOUS
  <1> USE ProgressAssumption DEF ProgressTypeOK, Goto, Threads, Places, Ticking,
          trackerVars, gauges, ctlVars, auxVars
  <1>1. ASSUME NEW w \in Workers, Inc(w) PROVE ProgressTypeOK'
    BY <1>1 DEF Inc
  <1>2. ASSUME NEW w \in Workers, Count(w) PROVE ProgressTypeOK'
    BY <1>2 DEF Count
  <1>3. CASE NodeInc
    BY <1>3 DEF NodeInc
  <1>4. ASSUME NEW n \in Totals, SetTotal(n) PROVE ProgressTypeOK'
    BY <1>4 DEF SetTotal
  <1>5. ASSUME NEW t \in Threads, Read(t) PROVE ProgressTypeOK'
    BY <1>5 DEF Read
  <1>6. ASSUME NEW t \in Threads, Remember(t) PROVE ProgressTypeOK'
    BY <1>6 DEF Remember, Remembered
  <1>7. ASSUME NEW t \in Threads, NEW whole \in BOOLEAN, Rate(t, whole) PROVE ProgressTypeOK'
    BY <1>7, SmoothedType DEF Rate, TakenIn
  <1>8. ASSUME NEW t \in Threads, NEW whole \in BOOLEAN, GoRead(t, whole) PROVE ProgressTypeOK'
    <2> DEFINE r == Smoothed(processed, loc[t].now, whole)
    <2>1. r \in BOOLEAN
      BY SmoothedType
    <2> HIDE DEF r
    <2>2. loc'[t] \in LocalsType
      BY <1>8, <2>1, ZenonT(40) DEF GoRead, r, LocalsType
    <2>3. loc' \in [Threads -> LocalsType]
      BY <1>8, <2>2 DEF GoRead, LocalsType
    <2> QED
      BY <1>8, <2>1, <2>3 DEF GoRead, TakenIn, Remembered, r, LocalsType
  <1>9. ASSUME NEW t \in Threads, ShowRemaining(t) PROVE ProgressTypeOK'
    <2>1. Remaining(loc[t].total, loc[t].processed) \in Nat
      BY LocalsFacts, RemainingType
    <2> QED
      BY <1>9, <2>1 DEF ShowRemaining
  <1>10. ASSUME NEW t \in Threads, ShowRate(t) PROVE ProgressTypeOK'
    BY <1>10 DEF ShowRate
  <1>11. ASSUME NEW t \in Threads, ShowEta(t) PROVE ProgressTypeOK'
    BY <1>11 DEF ShowEta, EtaKnown, NewLocals
  <1>12. ASSUME NEW now \in {clock, clock + 1}, LoopTick(now) PROVE ProgressTypeOK'
    BY <1>12 DEF LoopTick, StartTick, Reads
  <1>13. ASSUME NEW now \in {clock, clock + 1}, NEW whole \in BOOLEAN, IntervalFires(now, whole)
         PROVE  ProgressTypeOK'
    <2>1. NodeTick(now, whole) /\ UNCHANGED <<stopping, pc>>
      BY <1>13 DEF IntervalFires
    <2> QED
      BY <2>1, NodeTickType
  <1>14. ASSUME NEW now \in {clock, clock + 1}, NEW whole \in BOOLEAN,
                NEW s \in Stoppers, NodeStop(s, now, whole)
         PROVE  ProgressTypeOK'
    <2>1. NodeTick(now, whole) /\ stopping' = TRUE /\ pc' \in [Threads -> Places]
      BY <1>14 DEF NodeStop
    <2> QED
      BY <2>1, NodeTickType
  <1>15. CASE LoopExit
    BY <1>15 DEF LoopExit, AskedToExit
  <1>16. CASE Cancel
    BY <1>16 DEF Cancel
  <1>17. ASSUME NEW s \in Stoppers, PySetStop(s) PROVE ProgressTypeOK'
    BY <1>17 DEF PySetStop
  <1>18. ASSUME NEW s \in Stoppers, PyJoin(s) PROVE ProgressTypeOK'
    BY <1>18 DEF PyJoin, AfterJoin, Joined
  <1>19. ASSUME NEW s \in Stoppers, NEW now \in {clock, clock + 1}, FinalTick(s, now) PROVE ProgressTypeOK'
    BY <1>19 DEF FinalTick, StartTick, Reads
  <1>20. ASSUME NEW s \in Stoppers, PyStop(s) PROVE ProgressTypeOK'
    BY <1>20 DEF PyStop
  <1>21. ASSUME NEW s \in Stoppers, GoStop(s) PROVE ProgressTypeOK'
    BY <1>21 DEF GoStop
  <1>22. ASSUME NEW s \in Stoppers, StopAgain(s) PROVE ProgressTypeOK'
    BY <1>22 DEF StopAgain
  <1>23. CASE UNCHANGED vars
    BY <1>23 DEF vars
  <1> QED
    BY <1>1, <1>2, <1>3, <1>4, <1>5, <1>6, <1>7, <1>8, <1>9, <1>10, <1>11, <1>12, <1>13,
       <1>14, <1>15, <1>16, <1>17, <1>18, <1>19, <1>20, <1>21, <1>22, <1>23
    DEF Next, TickStep, StopStep

\* Each step leads to a place of the thread's own code.
LEMMA PlacesStep == ProgressTypeOK /\ PlacesFit /\ [Next]_vars => PlacesFit'
  <1> SUFFICES ASSUME ProgressTypeOK, PlacesFit, [Next]_vars
               PROVE  PlacesFit'
    OBVIOUS
  <1> USE ProgressAssumption DEF ProgressTypeOK, PlacesFit, Goto, Threads, Ticking,
          trackerVars, gauges, ctlVars, auxVars
  <1>1. ASSUME NEW w \in Workers, Inc(w) PROVE PlacesFit'
    BY <1>1 DEF Inc
  <1>2. ASSUME NEW w \in Workers, Count(w) PROVE PlacesFit'
    BY <1>2 DEF Count
  <1>3. CASE NodeInc
    BY <1>3 DEF NodeInc
  <1>4. ASSUME NEW n \in Totals, SetTotal(n) PROVE PlacesFit'
    BY <1>4 DEF SetTotal
  <1>5. ASSUME NEW t \in Threads, Read(t) PROVE PlacesFit'
    BY <1>5 DEF Read
  <1>6. ASSUME NEW t \in Threads, Remember(t) PROVE PlacesFit'
    BY <1>6 DEF Remember, Remembered
  <1>7. ASSUME NEW t \in Threads, NEW whole \in BOOLEAN, Rate(t, whole) PROVE PlacesFit'
    BY <1>7, SmoothedType DEF Rate, TakenIn
  <1>8. ASSUME NEW t \in Threads, NEW whole \in BOOLEAN, GoRead(t, whole) PROVE PlacesFit'
    BY <1>8, SmoothedType DEF GoRead, TakenIn, Remembered
  <1>9. ASSUME NEW t \in Threads, ShowRemaining(t) PROVE PlacesFit'
    BY <1>9, RemainingType DEF ShowRemaining
  <1>10. ASSUME NEW t \in Threads, ShowRate(t) PROVE PlacesFit'
    BY <1>10 DEF ShowRate
  <1>11. ASSUME NEW t \in Threads, ShowEta(t) PROVE PlacesFit'
    BY <1>11 DEF ShowEta, EtaKnown, NewLocals
  <1>12. ASSUME NEW now \in {clock, clock + 1}, LoopTick(now) PROVE PlacesFit'
    BY <1>12 DEF LoopTick, StartTick, Reads
  <1>13. ASSUME NEW now \in {clock, clock + 1}, NEW whole \in BOOLEAN, IntervalFires(now, whole)
         PROVE  PlacesFit'
    BY <1>13, SmoothedType, RemainingType DEF IntervalFires, NodeTick, Reads, TakenIn, Remembered, EtaKnown
  <1>14. ASSUME NEW now \in {clock, clock + 1}, NEW whole \in BOOLEAN,
                NEW s \in Stoppers, NodeStop(s, now, whole)
         PROVE  PlacesFit'
    BY <1>14, SmoothedType, RemainingType, ZenonT(40) DEF NodeStop, NodeTick, Reads, TakenIn, Remembered, EtaKnown
  <1>15. CASE LoopExit
    BY <1>15 DEF LoopExit, AskedToExit
  <1>16. CASE Cancel
    BY <1>16 DEF Cancel
  <1>17. ASSUME NEW s \in Stoppers, PySetStop(s) PROVE PlacesFit'
    BY <1>17 DEF PySetStop
  <1>18. ASSUME NEW s \in Stoppers, PyJoin(s) PROVE PlacesFit'
    BY <1>18 DEF PyJoin, AfterJoin, Joined
  <1>19. ASSUME NEW s \in Stoppers, NEW now \in {clock, clock + 1}, FinalTick(s, now) PROVE PlacesFit'
    BY <1>19 DEF FinalTick, StartTick, Reads
  <1>20. ASSUME NEW s \in Stoppers, PyStop(s) PROVE PlacesFit'
    BY <1>20 DEF PyStop
  <1>21. ASSUME NEW s \in Stoppers, GoStop(s) PROVE PlacesFit'
    BY <1>21 DEF GoStop
  <1>22. ASSUME NEW s \in Stoppers, StopAgain(s) PROVE PlacesFit'
    BY <1>22 DEF StopAgain
  <1>23. CASE UNCHANGED vars
    BY <1>23 DEF vars
  <1> QED
    BY <1>1, <1>2, <1>3, <1>4, <1>5, <1>6, <1>7, <1>8, <1>9, <1>10, <1>11, <1>12, <1>13,
       <1>14, <1>15, <1>16, <1>17, <1>18, <1>19, <1>20, <1>21, <1>22, <1>23
    DEF Next, TickStep, StopStep

-----------------------------------------------------------------------------
(* The counter.                                                            *)

\* Each step keeps the counter behind by the workers that have not counted.
LEMMA CountStep ==
  ASSUME ProgressTypeOK, PlacesFit, CountFits, [Next]_vars
  PROVE  CountFits'
  <1> USE ProgressAssumption DEF ProgressTypeOK, Goto, Threads, Ticking,
          trackerVars, gauges, ctlVars, auxVars
  <1>1. ASSUME NEW w \in Workers, Inc(w) PROVE CountFits'
    <2>1. w \notin Counting /\ Counting' = Counting \cup {w}
      BY <1>1 DEF Inc, Counting
    <2>2. IsFiniteSet(Counting') /\ Cardinality(Counting') = Cardinality(Counting) + 1
      BY <2>1, FS_AddElement DEF CountFits
    <2>3. Cardinality(Counting) \in Nat
      BY FS_CardinalityType DEF CountFits
    <2> QED
      BY <1>1, <2>2, <2>3 DEF Inc, CountFits
  <1>2. ASSUME NEW w \in Workers, Count(w) PROVE CountFits'
    <2>1. w \in Counting /\ Counting' = Counting \ {w}
      BY <1>2 DEF Count, Counting
    <2>2. IsFiniteSet(Counting') /\ Cardinality(Counting') = Cardinality(Counting) - 1
      BY <2>1, FS_RemoveElement DEF CountFits
    <2>3. Cardinality(Counting) \in Nat
      BY FS_CardinalityType DEF CountFits
    <2> QED
      BY <1>2, <2>2, <2>3 DEF Count, CountFits
  <1>3. CASE NodeInc
    <2>1. Counting' = Counting
      BY <1>3 DEF NodeInc, Counting
    <2>2. Cardinality(Counting) \in Nat
      BY FS_CardinalityType DEF CountFits
    <2> QED
      BY <1>3, <2>1, <2>2 DEF NodeInc, CountFits
  <1>4. ASSUME UNCHANGED <<processed, counter>>, \A w \in Workers : pc'[w] = pc[w]
        PROVE  CountFits'
    BY <1>4 DEF CountFits, Counting
  <1>5. ASSUME NEW t \in Threads, NEW to, pc[t] \notin {"idle", "counting"} \/ t \notin Workers,
               pc' = [pc EXCEPT ![t] = to]
        PROVE  \A w \in Workers : pc'[w] = pc[w]
    BY <1>5 DEF PlacesFit
  <1>6. ASSUME NEW t \in Threads, TickStep(t)
        PROVE  CountFits'
    <2>1. pc[t] \notin {"idle", "counting"} /\ (\E to : pc' = [pc EXCEPT ![t] = to])
          /\ UNCHANGED <<processed, counter>>
      BY <1>6 DEF TickStep, Read, Remember, Rate, GoRead, ShowRemaining, ShowRate, ShowEta
    <2> QED
      BY <2>1, <1>4, <1>5
  <1>7. ASSUME NEW s \in Stoppers, StopStep(s) \/ PyStop(s) \/ GoStop(s) \/ StopAgain(s)
        PROVE  CountFits'
    <2>1. s \notin Workers /\ (\E to : pc' = [pc EXCEPT ![s] = to])
          /\ UNCHANGED <<processed, counter>>
      BY <1>7 DEF StopStep, PySetStop, PyJoin, FinalTick, StartTick, PyStop, GoStop, StopAgain
    <2> QED
      BY <2>1, <1>4, <1>5
  <1>8. ASSUME (\E now \in {clock, clock + 1} : LoopTick(now)) \/ LoopExit
        PROVE  CountFits'
    <2>1. Loop \notin Workers /\ (\E to : pc' = [pc EXCEPT ![Loop] = to])
          /\ UNCHANGED <<processed, counter>>
      BY <1>8 DEF LoopTick, StartTick, LoopExit
    <2> QED
      BY <2>1, <1>4, <1>5
  <1>9. ASSUME NEW now \in {clock, clock + 1}, NEW whole \in BOOLEAN,
               IntervalFires(now, whole) \/ \E s \in Stoppers : NodeStop(s, now, whole)
        PROVE  CountFits'
    <2>1. (\A w \in Workers : pc'[w] = pc[w]) /\ UNCHANGED <<processed, counter>>
      BY <1>9 DEF IntervalFires, NodeStop, NodeTick
    <2> QED
      BY <2>1, <1>4
  <1>10. CASE Cancel \/ (\E n \in Totals : SetTotal(n)) \/ UNCHANGED vars
    BY <1>10, <1>4 DEF Cancel, SetTotal, vars
  <1> QED
    BY <1>1, <1>2, <1>3, <1>6, <1>7, <1>8, <1>9, <1>10 DEF Next

-----------------------------------------------------------------------------
(* Who ticks.                                                              *)

\* stop() and the loop take turns.
LEMMA TurnsStep ==
  ASSUME StopsInTurn, ProgressTypeOK, PlacesFit, TurnsFit, [Next]_vars
  PROVE  TurnsFit'
  <1> USE ProgressAssumption DEF ProgressTypeOK, PlacesFit, TurnsFit, StopsInTurn, Goto,
          Threads, Ticking, trackerVars, gauges, ctlVars, auxVars
  <1>1. ASSUME NEW w \in Workers, Inc(w) PROVE TurnsFit'
    BY <1>1 DEF Inc
  <1>2. ASSUME NEW w \in Workers, Count(w) PROVE TurnsFit'
    BY <1>2 DEF Count
  <1>3. CASE NodeInc
    BY <1>3 DEF NodeInc
  <1>4. ASSUME NEW n \in Totals, SetTotal(n) PROVE TurnsFit'
    BY <1>4 DEF SetTotal
  <1>5. ASSUME NEW t \in Threads, Read(t) PROVE TurnsFit'
    BY <1>5 DEF Read
  <1>6. ASSUME NEW t \in Threads, Remember(t) PROVE TurnsFit'
    BY <1>6 DEF Remember, Remembered
  <1>7. ASSUME NEW t \in Threads, NEW whole \in BOOLEAN, Rate(t, whole) PROVE TurnsFit'
    BY <1>7 DEF Rate, Smoothed, TakenIn
  <1>8. ASSUME NEW t \in Threads, NEW whole \in BOOLEAN, GoRead(t, whole) PROVE TurnsFit'
    BY <1>8 DEF GoRead, Smoothed, TakenIn, Remembered
  <1>9. ASSUME NEW t \in Threads, ShowRemaining(t) PROVE TurnsFit'
    BY <1>9 DEF ShowRemaining
  <1>10. ASSUME NEW t \in Threads, ShowRate(t) PROVE TurnsFit'
    BY <1>10 DEF ShowRate
  <1>11. ASSUME NEW t \in Threads, ShowEta(t) PROVE TurnsFit'
    BY <1>11 DEF ShowEta, EtaKnown, NewLocals
  <1>12. ASSUME NEW now \in {clock, clock + 1}, LoopTick(now) PROVE TurnsFit'
    BY <1>12 DEF LoopTick, StartTick, Reads
  <1>13. ASSUME NEW now \in {clock, clock + 1}, NEW whole \in BOOLEAN, IntervalFires(now, whole)
         PROVE  TurnsFit'
    BY <1>13 DEF IntervalFires, NodeTick, Reads, Smoothed, TakenIn, Remembered, EtaKnown
  <1>14. ASSUME NEW now \in {clock, clock + 1}, NEW whole \in BOOLEAN,
                NEW s \in Stoppers, NodeStop(s, now, whole)
         PROVE  TurnsFit'
    BY <1>14 DEF NodeStop, NodeTick, Reads, Smoothed, TakenIn, Remembered, EtaKnown
  <1>15. CASE LoopExit
    BY <1>15 DEF LoopExit, AskedToExit
  <1>16. CASE Cancel
    BY <1>16 DEF Cancel
  <1>17. ASSUME NEW s \in Stoppers, PySetStop(s) PROVE TurnsFit'
    BY <1>17 DEF PySetStop
  <1>18. ASSUME NEW s \in Stoppers, PyJoin(s) PROVE TurnsFit'
    BY <1>18 DEF PyJoin, AfterJoin, Joined
  <1>19. ASSUME NEW s \in Stoppers, NEW now \in {clock, clock + 1}, FinalTick(s, now) PROVE TurnsFit'
    BY <1>19 DEF FinalTick, StartTick, Reads
  <1>20. ASSUME NEW s \in Stoppers, PyStop(s) PROVE TurnsFit'
    BY <1>20 DEF PyStop
  <1>21. ASSUME NEW s \in Stoppers, GoStop(s) PROVE TurnsFit'
    BY <1>21 DEF GoStop
  <1>22. ASSUME NEW s \in Stoppers, StopAgain(s) PROVE TurnsFit'
    BY <1>22 DEF StopAgain
  <1>23. CASE UNCHANGED vars
    BY <1>23 DEF vars
  <1> QED
    BY <1>1, <1>2, <1>3, <1>4, <1>5, <1>6, <1>7, <1>8, <1>9, <1>10, <1>11, <1>12, <1>13,
       <1>14, <1>15, <1>16, <1>17, <1>18, <1>19, <1>20, <1>21, <1>22, <1>23
    DEF Next, TickStep, StopStep

\* Python ticks in one thread at a time.
OneTicks ==
    lane = "python" =>
      \A t, u \in Threads : pc[t] \in Ticking /\ pc[u] \in Ticking => t = u

\* It does, since the loop has ended when stop() ticks.
LEMMA OneTicksAtATime ==
  ASSUME StopsInTurn, ProgressTypeOK, PlacesFit, TurnsFit
  PROVE  OneTicks
  BY DEF StopsInTurn, ProgressTypeOK, PlacesFit, TurnsFit, OneTicks, Threads, Ticking

-----------------------------------------------------------------------------
(* The rate.                                                               *)

\* Each step keeps the items that the rate has seen behind the items reported.
LEMMA RatedStep ==
  ASSUME ProgressTypeOK, PlacesFit, OneTicks, RatedFits, [Next]_vars
  PROVE  RatedFits'
  <1> USE ProgressAssumption DEF ProgressTypeOK, PlacesFit, OneTicks, RatedFits, NoItemRatedTwice,
          Goto, Threads, Ticking, trackerVars, gauges, ctlVars, auxVars
  <1>1. ASSUME NEW w \in Workers, Inc(w) PROVE RatedFits'
    BY <1>1 DEF Inc
  <1>2. ASSUME NEW w \in Workers, Count(w) PROVE RatedFits'
    BY <1>2 DEF Count
  <1>3. CASE NodeInc
    BY <1>3 DEF NodeInc
  <1>4. ASSUME NEW n \in Totals, SetTotal(n) PROVE RatedFits'
    BY <1>4 DEF SetTotal
  <1>5. ASSUME NEW t \in Threads, Read(t) PROVE RatedFits'
    BY <1>5 DEF Read
  <1>6. ASSUME NEW t \in Threads, Remember(t) PROVE RatedFits'
    BY <1>6 DEF Remember, Remembered
  <1>7. ASSUME NEW t \in Threads, NEW whole \in BOOLEAN, Rate(t, whole) PROVE RatedFits'
    BY <1>7 DEF Rate, Smoothed, TakenIn
  <1>8. ASSUME NEW t \in Threads, NEW whole \in BOOLEAN, GoRead(t, whole) PROVE RatedFits'
    BY <1>8 DEF GoRead, Smoothed, TakenIn, Remembered
  <1>9. ASSUME NEW t \in Threads, ShowRemaining(t) PROVE RatedFits'
    BY <1>9 DEF ShowRemaining
  <1>10. ASSUME NEW t \in Threads, ShowRate(t) PROVE RatedFits'
    BY <1>10 DEF ShowRate
  <1>11. ASSUME NEW t \in Threads, ShowEta(t) PROVE RatedFits'
    BY <1>11 DEF ShowEta, EtaKnown, NewLocals
  <1>12. ASSUME NEW now \in {clock, clock + 1}, LoopTick(now) PROVE RatedFits'
    BY <1>12 DEF LoopTick, StartTick, Reads
  <1>13. ASSUME NEW now \in {clock, clock + 1}, NEW whole \in BOOLEAN, IntervalFires(now, whole)
         PROVE  RatedFits'
    BY <1>13 DEF IntervalFires, NodeTick, Reads, Smoothed, TakenIn, Remembered, EtaKnown
  <1>14. ASSUME NEW now \in {clock, clock + 1}, NEW whole \in BOOLEAN,
                NEW s \in Stoppers, NodeStop(s, now, whole)
         PROVE  RatedFits'
    BY <1>14 DEF NodeStop, NodeTick, Reads, Smoothed, TakenIn, Remembered, EtaKnown
  <1>15. CASE LoopExit
    BY <1>15 DEF LoopExit, AskedToExit
  <1>16. CASE Cancel
    BY <1>16 DEF Cancel
  <1>17. ASSUME NEW s \in Stoppers, PySetStop(s) PROVE RatedFits'
    BY <1>17 DEF PySetStop
  <1>18. ASSUME NEW s \in Stoppers, PyJoin(s) PROVE RatedFits'
    BY <1>18 DEF PyJoin, AfterJoin, Joined
  <1>19. ASSUME NEW s \in Stoppers, NEW now \in {clock, clock + 1}, FinalTick(s, now) PROVE RatedFits'
    BY <1>19 DEF FinalTick, StartTick, Reads
  <1>20. ASSUME NEW s \in Stoppers, PyStop(s) PROVE RatedFits'
    BY <1>20 DEF PyStop
  <1>21. ASSUME NEW s \in Stoppers, GoStop(s) PROVE RatedFits'
    BY <1>21 DEF GoStop
  <1>22. ASSUME NEW s \in Stoppers, StopAgain(s) PROVE RatedFits'
    BY <1>22 DEF StopAgain
  <1>23. CASE UNCHANGED vars
    BY <1>23 DEF vars
  <1> QED
    BY <1>1, <1>2, <1>3, <1>4, <1>5, <1>6, <1>7, <1>8, <1>9, <1>10, <1>11, <1>12, <1>13,
       <1>14, <1>15, <1>16, <1>17, <1>18, <1>19, <1>20, <1>21, <1>22, <1>23
    DEF Next, TickStep, StopStep

-----------------------------------------------------------------------------
(* The gauges.                                                             *)

\* Each step keeps the gauges that a tick has written to what it goes by.
LEMMA GaugesStep ==
  ASSUME ProgressTypeOK, PlacesFit, OneTicks, GaugesFit, [Next]_vars
  PROVE  GaugesFit'
  <1> USE ProgressAssumption DEF ProgressTypeOK, PlacesFit, OneTicks, GaugesFit, Updating,
          Goto, Threads, Ticking, trackerVars, gauges, ctlVars, auxVars
  <1>1. ASSUME NEW w \in Workers, Inc(w) PROVE GaugesFit'
    BY <1>1 DEF Inc
  <1>2. ASSUME NEW w \in Workers, Count(w) PROVE GaugesFit'
    BY <1>2 DEF Count
  <1>3. CASE NodeInc
    BY <1>3 DEF NodeInc
  <1>4. ASSUME NEW n \in Totals, SetTotal(n) PROVE GaugesFit'
    BY <1>4 DEF SetTotal
  <1>5. ASSUME NEW t \in Threads, Read(t) PROVE GaugesFit'
    BY <1>5 DEF Read
  <1>6. ASSUME NEW t \in Threads, Remember(t) PROVE GaugesFit'
    BY <1>6 DEF Remember, Remembered
  <1>7. ASSUME NEW t \in Threads, NEW whole \in BOOLEAN, Rate(t, whole) PROVE GaugesFit'
    BY <1>7 DEF Rate, Smoothed, TakenIn
  <1>8. ASSUME NEW t \in Threads, NEW whole \in BOOLEAN, GoRead(t, whole) PROVE GaugesFit'
    BY <1>8 DEF GoRead, Smoothed, TakenIn, Remembered
  <1>9. ASSUME NEW t \in Threads, ShowRemaining(t) PROVE GaugesFit'
    BY <1>9 DEF ShowRemaining
  <1>10. ASSUME NEW t \in Threads, ShowRate(t) PROVE GaugesFit'
    BY <1>10 DEF ShowRate
  <1>11. ASSUME NEW t \in Threads, ShowEta(t) PROVE GaugesFit'
    BY <1>11 DEF ShowEta, EtaKnown, NewLocals
  <1>12. ASSUME NEW now \in {clock, clock + 1}, LoopTick(now) PROVE GaugesFit'
    BY <1>12 DEF LoopTick, StartTick, Reads
  <1>13. ASSUME NEW now \in {clock, clock + 1}, NEW whole \in BOOLEAN, IntervalFires(now, whole)
         PROVE  GaugesFit'
    BY <1>13 DEF IntervalFires, NodeTick, Reads, Smoothed, TakenIn, Remembered, EtaKnown
  <1>14. ASSUME NEW now \in {clock, clock + 1}, NEW whole \in BOOLEAN,
                NEW s \in Stoppers, NodeStop(s, now, whole)
         PROVE  GaugesFit'
    BY <1>14 DEF NodeStop, NodeTick, Reads, Smoothed, TakenIn, Remembered, EtaKnown
  <1>15. CASE LoopExit
    BY <1>15 DEF LoopExit, AskedToExit
  <1>16. CASE Cancel
    BY <1>16 DEF Cancel
  <1>17. ASSUME NEW s \in Stoppers, PySetStop(s) PROVE GaugesFit'
    BY <1>17 DEF PySetStop
  <1>18. ASSUME NEW s \in Stoppers, PyJoin(s) PROVE GaugesFit'
    BY <1>18 DEF PyJoin, AfterJoin, Joined
  <1>19. ASSUME NEW s \in Stoppers, NEW now \in {clock, clock + 1}, FinalTick(s, now) PROVE GaugesFit'
    BY <1>19 DEF FinalTick, StartTick, Reads
  <1>20. ASSUME NEW s \in Stoppers, PyStop(s) PROVE GaugesFit'
    BY <1>20 DEF PyStop
  <1>21. ASSUME NEW s \in Stoppers, GoStop(s) PROVE GaugesFit'
    BY <1>21 DEF GoStop
  <1>22. ASSUME NEW s \in Stoppers, StopAgain(s) PROVE GaugesFit'
    BY <1>22 DEF StopAgain
  <1>23. CASE UNCHANGED vars
    BY <1>23 DEF vars
  <1> QED
    BY <1>1, <1>2, <1>3, <1>4, <1>5, <1>6, <1>7, <1>8, <1>9, <1>10, <1>11, <1>12, <1>13,
       <1>14, <1>15, <1>16, <1>17, <1>18, <1>19, <1>20, <1>21, <1>22, <1>23
    DEF Next, TickStep, StopStep

\* Each step keeps the last tick of stop() to the progress that was reported.
LEMMA FlushStep ==
  ASSUME StopsInTurn, ProgressTypeOK, PlacesFit, TurnsFit, GaugesFit, FlushFits, [Next]_vars
  PROVE  FlushFits'
  <1> USE ProgressAssumption DEF ProgressTypeOK, PlacesFit, TurnsFit, StopsInTurn, FlushFits,
          Goto, Threads, Ticking, trackerVars, gauges, ctlVars, auxVars
  <1>1. ASSUME NEW w \in Workers, Inc(w) PROVE FlushFits'
    BY <1>1 DEF Inc
  <1>2. ASSUME NEW w \in Workers, Count(w) PROVE FlushFits'
    BY <1>2 DEF Count
  <1>3. CASE NodeInc
    BY <1>3 DEF NodeInc
  <1>4. ASSUME NEW n \in Totals, SetTotal(n) PROVE FlushFits'
    BY <1>4 DEF SetTotal
  <1>5. ASSUME NEW t \in Threads, Read(t) PROVE FlushFits'
    BY <1>5 DEF Read
  <1>6. ASSUME NEW t \in Threads, Remember(t) PROVE FlushFits'
    BY <1>6 DEF Remember, Remembered
  <1>7. ASSUME NEW t \in Threads, NEW whole \in BOOLEAN, Rate(t, whole) PROVE FlushFits'
    BY <1>7 DEF Rate, Smoothed, TakenIn
  <1>8. ASSUME NEW t \in Threads, NEW whole \in BOOLEAN, GoRead(t, whole) PROVE FlushFits'
    BY <1>8 DEF GoRead, Smoothed, TakenIn, Remembered
  <1>9. ASSUME NEW t \in Threads, ShowRemaining(t) PROVE FlushFits'
    BY <1>9 DEF ShowRemaining
  <1>10. ASSUME NEW t \in Threads, ShowRate(t) PROVE FlushFits'
    BY <1>10 DEF ShowRate
  <1>11. ASSUME NEW t \in Threads, ShowEta(t) PROVE FlushFits'
    BY <1>11 DEF ShowEta, EtaKnown, NewLocals, GaugesFit
  <1>12. ASSUME NEW now \in {clock, clock + 1}, LoopTick(now) PROVE FlushFits'
    BY <1>12 DEF LoopTick, StartTick, Reads
  <1>13. ASSUME NEW now \in {clock, clock + 1}, NEW whole \in BOOLEAN, IntervalFires(now, whole)
         PROVE  FlushFits'
    BY <1>13 DEF IntervalFires, NodeTick, Reads, Smoothed, TakenIn, Remembered, EtaKnown
  <1>14. ASSUME NEW now \in {clock, clock + 1}, NEW whole \in BOOLEAN,
                NEW s \in Stoppers, NodeStop(s, now, whole)
         PROVE  FlushFits'
    BY <1>14 DEF NodeStop, NodeTick, Reads, Smoothed, TakenIn, Remembered, EtaKnown
  <1>15. CASE LoopExit
    BY <1>15 DEF LoopExit, AskedToExit
  <1>16. CASE Cancel
    BY <1>16 DEF Cancel
  <1>17. ASSUME NEW s \in Stoppers, PySetStop(s) PROVE FlushFits'
    BY <1>17 DEF PySetStop
  <1>18. ASSUME NEW s \in Stoppers, PyJoin(s) PROVE FlushFits'
    BY <1>18 DEF PyJoin, AfterJoin, Joined
  <1>19. ASSUME NEW s \in Stoppers, NEW now \in {clock, clock + 1}, FinalTick(s, now) PROVE FlushFits'
    BY <1>19 DEF FinalTick, StartTick, Reads
  <1>20. ASSUME NEW s \in Stoppers, PyStop(s) PROVE FlushFits'
    BY <1>20 DEF PyStop
  <1>21. ASSUME NEW s \in Stoppers, GoStop(s) PROVE FlushFits'
    BY <1>21 DEF GoStop
  <1>22. ASSUME NEW s \in Stoppers, StopAgain(s) PROVE FlushFits'
    BY <1>22 DEF StopAgain
  <1>23. CASE UNCHANGED vars
    BY <1>23 DEF vars
  <1> QED
    BY <1>1, <1>2, <1>3, <1>4, <1>5, <1>6, <1>7, <1>8, <1>9, <1>10, <1>11, <1>12, <1>13,
       <1>14, <1>15, <1>16, <1>17, <1>18, <1>19, <1>20, <1>21, <1>22, <1>23
    DEF Next, TickStep, StopStep

-----------------------------------------------------------------------------
(* The theorems.                                                           *)

\* A fresh tracker satisfies the invariant.
LEMMA ProgressInit == Init => ProgressInv
  <1> SUFFICES ASSUME Init
               PROVE  ProgressInv
    OBVIOUS
  <1> USE ProgressAssumption DEF Init, Threads, Ticking
  <1>1. ProgressTypeOK
    <2>1. NewLocals \in LocalsType
      BY DEF NewLocals, LocalsType
    <2>2. loc \in [Threads -> LocalsType] /\ pc \in [Threads -> Places]
      BY <2>1 DEF Places
    <2>3. processed \in 0..MaxProcessed /\ lastProcessed \in 0..MaxProcessed
      OBVIOUS
    <2>4. total \in Totals /\ remaining \in Nat
      OBVIOUS
    <2>5. rate \in BOOLEAN /\ shownRate \in BOOLEAN /\ shownEta \in BOOLEAN
          /\ stopping \in BOOLEAN /\ cancelled \in BOOLEAN /\ late \in BOOLEAN
      BY Zenon
    <2>6. clock \in Nat /\ lastTick \in 0..clock /\ counter \in Nat /\ rated \in Int
      OBVIOUS
    <2>7. lane \in Lanes
      OBVIOUS
    <2> QED
      BY <2>2, <2>3, <2>4, <2>5, <2>6, <2>7, Zenon DEF ProgressTypeOK, LocalsType
  <1>2. PlacesFit /\ TurnsFit
    BY DEF PlacesFit, TurnsFit
  <1>3. CountFits
    <2>1. Counting = {}
      BY DEF Counting
    <2> QED
      BY <2>1, FS_EmptySet DEF CountFits
  <1>4. RatedFits
    BY DEF RatedFits, NoItemRatedTwice
  <1>5. GaugesFit /\ FlushFits
    BY DEF GaugesFit, FlushFits
  <1> QED
    BY <1>1, <1>2, <1>3, <1>4, <1>5 DEF ProgressInv

\* Each step keeps the invariant.
LEMMA ProgressStep == StopsInTurn /\ ProgressInv /\ [Next]_vars => ProgressInv'
  <1> SUFFICES ASSUME StopsInTurn, ProgressInv, [Next]_vars
               PROVE  ProgressInv'
    OBVIOUS
  <1>1. /\ ProgressTypeOK /\ PlacesFit /\ CountFits
        /\ TurnsFit /\ RatedFits /\ GaugesFit /\ FlushFits
    BY DEF ProgressInv
  <1>2. OneTicks
    BY <1>1, OneTicksAtATime
  <1> QED
    BY <1>1, <1>2, TypeStep, PlacesStep, CountStep, TurnsStep, RatedStep, GaugesStep, FlushStep
    DEF ProgressInv

\* The types, however many threads stop the tracker and whether or not joins time out.
THEOREM ProgressTypes == Spec => []ProgressTypeOK
  <1>1. Init => ProgressTypeOK
    BY ProgressInit DEF ProgressInv
  <1> QED
    BY <1>1, TypeStep, PTL DEF Spec

\* inc() and the counter: in every lane, however many threads stop the tracker,
\* the counter is behind the items by the calls of inc() that are under way.
THEOREM ProgressCounter == Spec => [](PlacesFit /\ CountFits)
  <1>1. Init => ProgressTypeOK /\ PlacesFit /\ CountFits
    BY ProgressInit DEF ProgressInv
  <1>2. ProgressTypeOK /\ PlacesFit /\ CountFits /\ [Next]_vars
          => (ProgressTypeOK /\ PlacesFit /\ CountFits)'
    BY TypeStep, PlacesStep, CountStep
  <1> QED
    BY <1>1, <1>2, PTL DEF Spec

\* The invariant of a tracker that stops in turn.
THEOREM ProgressInvariant ==
  ASSUME StopsInTurn
  PROVE  Spec => []ProgressInv
  <1>1. ProgressInv /\ [Next]_vars => ProgressInv'
    BY ProgressStep
  <1> QED
    BY <1>1, ProgressInit, PTL DEF Spec

\* No item is taken into two updates of the rate, by the loop or by stop().
THEOREM ProgressRatedOnce ==
  ASSUME StopsInTurn
  PROVE  Spec => []NoItemRatedTwice
  <1>1. ProgressInv => NoItemRatedTwice
    BY DEF ProgressInv, RatedFits
  <1> QED
    BY <1>1, ProgressInvariant, PTL

\* Between ticks of Python and Node the ETA goes with the rate and what remains.
THEOREM ProgressEtaFits ==
  ASSUME StopsInTurn
  PROVE  Spec => []PyEtaFits
  <1>1. ProgressInv => PyEtaFits
    BY DEF ProgressInv, GaugesFit, PyEtaFits, EtaFits
  <1> QED
    BY <1>1, ProgressInvariant, PTL

\* After stop() of Python and Node what remains is the end-state.
THEOREM ProgressStopFlushes ==
  ASSUME StopsInTurn
  PROVE  Spec => []StopFlushes
  <1>1. ASSUME ProgressInv, ~Reporting
        PROVE  counter = processed
    <2>1. Counting = {}
      BY <1>1 DEF Counting, Reporting
    <2> QED
      BY <1>1, <2>1, FS_EmptySet DEF ProgressInv, CountFits, ProgressTypeOK
  <1>2. ProgressInv => StopFlushes
    BY <1>1 DEF ProgressInv, FlushFits, TurnsFit, StopFlushes, Flushed, StopReturned
  <1> QED
    BY <1>2, ProgressInvariant, PTL

\* After stop() of Python and Node no step writes a gauge.
THEOREM ProgressQuiet ==
  ASSUME StopsInTurn
  PROVE  Spec => QuietAfterStop
  <1> DEFINE Quiet == lane # "go" /\ StopReturned => UNCHANGED gauges
  <1>1. ASSUME ProgressInv, [Next]_vars, lane # "go", StopReturned
        PROVE  UNCHANGED gauges
    <2>1. PICK s \in Stoppers : pc[s] = "returned"
      BY <1>1 DEF StopReturned
    <2>2. ASSUME NEW t \in Threads
          PROVE  pc[t] \notin Ticking
      BY <1>1, <2>1, <2>2, ProgressAssumption
      DEF ProgressInv, PlacesFit, TurnsFit, StopsInTurn, ProgressTypeOK, Threads, Ticking
    <2>3. lane = "node" => stopping /\ pc[Loop] = "exited"
      BY <1>1, <2>1 DEF ProgressInv, TurnsFit
    <2>4. ASSUME NEW t \in Threads, TickStep(t)
          PROVE  UNCHANGED gauges
      BY <2>2, <2>4 DEF TickStep, Read, Remember, Rate, GoRead, ShowRemaining, ShowRate, ShowEta,
                        Goto, Ticking
    <2>5. ASSUME NEW now, NEW whole, IntervalFires(now, whole)
          PROVE  UNCHANGED gauges
      BY <2>3, <2>5 DEF IntervalFires
    <2>6. ASSUME NEW r, NEW now, NEW whole, NodeStop(r, now, whole)
          PROVE  UNCHANGED gauges
      BY <2>3, <2>6 DEF NodeStop
    <2> QED
      BY <1>1, <2>4, <2>5, <2>6
      DEF Next, Inc, Count, NodeInc, SetTotal, LoopTick, StartTick, LoopExit, Cancel, StopStep,
          PySetStop, PyJoin, FinalTick, PyStop, GoStop, StopAgain, vars, gauges
  <1>2. ProgressInv /\ [Next]_vars => [Quiet]_vars
    BY <1>1
  <1> QED
    BY <1>2, ProgressInvariant, PTL DEF Spec, QuietAfterStop
===============================================================================
