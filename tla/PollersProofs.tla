----------------------------- MODULE PollersProofs -----------------------------
(***************************************************************************)
(* Theorems about Pollers, for any callbacks, services and numbers of      *)
(* ticks: what a scrape can see of one tracker.                            *)
(***************************************************************************)
EXTENDS Pollers, TLAPS

\* A tick has a value for each callback it has called; threads tick one by one.
TicksFit ==
    /\ \A t \in Ticks :
         /\ pc[t] = "waiting" => got[t] = << >>
         /\ pc[t] = "reading" => Len(got[t]) < Len(Callbacks)
         /\ pc[t] \in {"writing", "written"} => Len(got[t]) = Len(Callbacks)
    /\ lane # "node" => \A t, u \in InTick : t = u

\* Tick t has written the first k gauges, over those of tick u.
WrittenTo(t, k, u) == \A g \in Gauges : gauge[mine][g].tick = IF g <= k THEN t ELSE u

\* What the gauges show: ticks that got so far as to write, those of a thread in order.
GaugesFit ==
    /\ \A s \in Services, g \in Gauges : gauge[s][g].tick # 0 =>
         /\ s = mine
         /\ pc[gauge[s][g].tick] # "written" => lane # "node" /\ pc[gauge[s][g].tick] = "writing"
    /\ \A t \in Ticks : lane # "node" /\ pc[t] = "writing" =>
         \E k \in 0..(Len(Callbacks) - 1), u \in ({0} \cup Ticks) \ {t} : WrittenTo(t, k, u)
    /\ OneSnapshot

\* No gauge is newer than the pool, nor than what the thread's tick has read for it.
ValuesFit ==
    /\ \A s \in Services, g \in Gauges : gauge[s][g].value <= world
    /\ \A t \in Ticks, g \in Gauges : g <= Len(got[t]) =>
         /\ got[t][g] <= world
         /\ lane # "node" /\ t \in InTick => gauge[mine][g].value <= got[t][g]

PollersInv == PollersTypeOK /\ TicksFit /\ GaugesFit /\ ValuesFit

-----------------------------------------------------------------------------
(* The next gauge.                                                         *)

\* A thread that has written k gauges writes gauge k + 1 next.
LEMMA NextGaugeIs ==
    ASSUME PollersTypeOK, NEW t \in Ticks, NEW k \in 0..(Len(Callbacks) - 1),
           NEW u, u # t, WrittenTo(t, k, u)
    PROVE  NextGauge(t) = k + 1
  <1> USE PollersAssumption
  <1> DEFINE P(g) == /\ gauge[EmitsUnder][g].tick # t
                     /\ \A h \in 1..(g - 1) : gauge[EmitsUnder][h].tick = t
  <1>1. k + 1 \in Gauges /\ P(k + 1)
    BY DEF WrittenTo, Gauges, EmitsUnder
  <1>2. ASSUME NEW g \in Gauges, P(g)
        PROVE  g = k + 1
    <2>1. g > k
      BY <1>2 DEF WrittenTo, Gauges, EmitsUnder
    <2>2. CASE g > k + 1
      <3>1. k + 1 \in 1..(g - 1) /\ gauge[EmitsUnder][k + 1].tick # t
        BY <1>1, <1>2, <2>2 DEF Gauges
      <3> QED
        BY <1>2, <3>1
    <2> QED
      BY <2>1, <2>2 DEF Gauges
  <1> QED
    BY <1>1, <1>2 DEF NextGauge

\* A thread in the middle of its writes has a next gauge, and a value for it.
LEMMA NextGaugeFits ==
    ASSUME PollersTypeOK, TicksFit, GaugesFit, NEW t \in Ticks, lane # "node",
           pc[t] = "writing"
    PROVE  /\ NextGauge(t) \in Gauges
           /\ got[t][NextGauge(t)] \in 0..MaxWorld
           /\ \E u \in ({0} \cup Ticks) \ {t} : WrittenTo(t, NextGauge(t) - 1, u)
  <1> USE PollersAssumption
  <1>1. PICK k \in 0..(Len(Callbacks) - 1), u \in ({0} \cup Ticks) \ {t} : WrittenTo(t, k, u)
    BY DEF GaugesFit
  <1>2. NextGauge(t) = k + 1
    BY <1>1, NextGaugeIs
  <1>3. got[t] \in Seq(0..MaxWorld) /\ Len(got[t]) = Len(Callbacks)
    BY DEF PollersTypeOK, TicksFit
  <1>4. NextGauge(t) \in 1..Len(got[t])
    BY <1>2, <1>3
  <1>5. got[t][NextGauge(t)] \in 0..MaxWorld
    BY <1>3, <1>4
  <1>6. NextGauge(t) - 1 = k
    BY <1>2
  <1> QED
    BY <1>1, <1>3, <1>4, <1>5, <1>6 DEF Gauges

-----------------------------------------------------------------------------
(* Each step keeps the invariant.                                          *)

\* Types.
LEMMA PollersTypeStep ==
    ASSUME PollersTypeOK, TicksFit, GaugesFit, [Next]_vars
    PROVE  PollersTypeOK'
  <1> USE PollersAssumption DEF PollersTypeOK, Sample
  <1>1. ASSUME NEW t \in Ticks, Begin(t) PROVE PollersTypeOK'
    BY <1>1 DEF Begin
  <1>2. ASSUME NEW t \in Ticks, Read(t) PROVE PollersTypeOK'
    <2> DEFINE v == Append(got[t], world)
    <2>1. got[t] \in Seq(0..MaxWorld) /\ Len(got[t]) < Len(Callbacks)
      BY <1>2 DEF Read, TicksFit
    <2>2. v \in Seq(0..MaxWorld) /\ Len(v) <= Len(Callbacks)
      BY <2>1
    <2>3. got' = [got EXCEPT ![t] = v]
      BY <1>2 DEF Read
    <2>4. got' \in [Ticks -> Seq(0..MaxWorld)] /\ \A u \in Ticks : Len(got'[u]) <= Len(Callbacks)
      <3> HIDE DEF v
      <3> QED
        BY <2>2, <2>3
    <2>5. pc' \in [Ticks -> {"waiting", "reading", "writing"} \cup Ended]
      BY <1>2 DEF Read
    <2> QED
      BY <1>2, <2>4, <2>5 DEF Read, WhileReading
  <1>3. ASSUME NEW t \in Ticks, Fail(t) PROVE PollersTypeOK'
    BY <1>3 DEF Fail, KeepGauges, Ended
  <1>4. ASSUME NEW t \in Ticks, WriteNext(t) PROVE PollersTypeOK'
    <2>1. NextGauge(t) \in Gauges /\ got[t][NextGauge(t)] \in 0..MaxWorld
      BY <1>4, NextGaugeFits DEF WriteNext
    <2>2. gauge' \in [Services -> [Gauges -> Sample]]
      BY <1>4, <2>1 DEF WriteNext, Written, EmitsUnder
    <2> QED
      BY <1>4, <2>2 DEF WriteNext, Ended
  <1>5. ASSUME NEW t \in Ticks, WriteAll(t) PROVE PollersTypeOK'
    <2>1. got[t] \in Seq(0..MaxWorld) /\ Len(got[t]) = Len(Callbacks)
      BY <1>5 DEF WriteAll, TicksFit
    <2>2. \A g \in Gauges : got[t][g] \in 0..MaxWorld
      BY <2>1 DEF Gauges
    <2>3. gauge' \in [Services -> [Gauges -> Sample]]
      BY <1>5, <2>2 DEF WriteAll, EmitsUnder
    <2> QED
      BY <1>5, <2>3 DEF WriteAll, Ended
  <1>6. ASSUME Stop PROVE PollersTypeOK'
    <2>1. stopped' \in BOOLEAN /\ alive' \in BOOLEAN
      BY <1>6, Zenon DEF Stop
    <2>2. UNCHANGED <<lane, service, mine, world, pc, got, gauge, began>>
      BY <1>6 DEF Stop
    <2> QED
      BY <2>1, <2>2
  <1>7. ASSUME Exit PROVE PollersTypeOK'
    BY <1>7 DEF Exit
  <1>8. ASSUME NEW s \in Services, SetService(s) PROVE PollersTypeOK'
    BY <1>8 DEF SetService
  <1>9. ASSUME Change PROVE PollersTypeOK'
    BY <1>9 DEF Change
  <1>10. CASE UNCHANGED vars
    BY <1>10 DEF vars
  <1> HIDE DEF PollersTypeOK
  <1> QED
    BY <1>1, <1>2, <1>3, <1>4, <1>5, <1>6, <1>7, <1>8, <1>9, <1>10 DEF Next, TickStep

\* The values of the ticks, and one tick at a time.
LEMMA TicksStep ==
    ASSUME PollersTypeOK, TicksFit, GaugesFit, [Next]_vars
    PROVE  TicksFit'
  <1> USE PollersAssumption DEF PollersTypeOK, InTick
  <1>1. ASSUME NEW t \in Ticks, Begin(t) PROVE TicksFit'
    <2>1. got[t] = << >> /\ Len(<< >>) < Len(Callbacks)
      BY <1>1 DEF Begin, TicksFit
    <2> QED
      BY <1>1, <2>1 DEF Begin, TicksFit, MayOverlap
  <1>2. ASSUME NEW t \in Ticks, Read(t) PROVE TicksFit'
    <2> DEFINE v == Append(got[t], world)
    <2>1. got[t] \in Seq(0..MaxWorld) /\ Len(got[t]) < Len(Callbacks)
      BY <1>2 DEF Read, TicksFit
    <2>2. Len(v) <= Len(Callbacks) /\ Len(v) \in Nat
      BY <2>1
    <2>3. /\ got' = [got EXCEPT ![t] = v] /\ pc[t] = "reading"
          /\ pc' = [pc EXCEPT ![t] = IF Len(v) = Len(Callbacks) THEN "writing" ELSE "reading"]
          /\ lane' = lane
      BY <1>2 DEF Read, ReadAll
    <2> HIDE DEF v
    <2>4. lane # "node" => \A x, u \in InTick' : x = u
      BY <2>3 DEF TicksFit
    <2> QED
      BY <2>2, <2>3, <2>4 DEF TicksFit
  <1>3. ASSUME NEW t \in Ticks, Fail(t) PROVE TicksFit'
    BY <1>3 DEF Fail, TicksFit
  <1>4. ASSUME NEW t \in Ticks, WriteNext(t) PROVE TicksFit'
    BY <1>4 DEF WriteNext, TicksFit
  <1>5. ASSUME NEW t \in Ticks, WriteAll(t) PROVE TicksFit'
    BY <1>5 DEF WriteAll, TicksFit
  <1>6. ASSUME Stop \/ Exit \/ (\E s \in Services : SetService(s)) \/ Change PROVE TicksFit'
    BY <1>6 DEF Stop, Exit, SetService, Change, TicksFit
  <1>7. CASE UNCHANGED vars
    BY <1>7 DEF vars, TicksFit
  <1> HIDE DEF PollersTypeOK
  <1> QED
    BY <1>1, <1>2, <1>3, <1>4, <1>5, <1>6, <1>7 DEF Next, TickStep

\* The gauges of one snapshot.
LEMMA GaugesStep ==
    ASSUME PollersTypeOK, TicksFit, GaugesFit, [Next]_vars
    PROVE  GaugesFit'
  <1> USE PollersAssumption DEF PollersTypeOK, Sample
  <1>1. ASSUME NEW t \in Ticks, Begin(t) PROVE GaugesFit'
    <2>1. ~Writing
      BY <1>1 DEF Begin, MayOverlap, InTick, Writing
    <2>2. /\ pc[t] = "waiting" /\ pc' = [pc EXCEPT ![t] = "reading"]
          /\ UNCHANGED <<lane, mine, gauge>>
      BY <1>1 DEF Begin
    <2> QED
      BY <2>1, <2>2 DEF GaugesFit, OneSnapshot, Writing
  <1>2. ASSUME NEW t \in Ticks, Read(t) PROVE GaugesFit'
    <2>1. /\ pc[t] = "reading" /\ pc'[t] \in {"reading", "writing"}
          /\ \A u \in Ticks : u # t => pc'[u] = pc[u]
          /\ UNCHANGED <<lane, mine, gauge>>
      BY <1>2 DEF Read, WhileReading
    <2>2. lane # "node" => \A u \in Ticks : u # t => pc[u] \notin {"reading", "writing"}
      BY <2>1 DEF TicksFit, InTick
    <2>3. OneSnapshot'
      BY <2>1, <2>2 DEF GaugesFit, OneSnapshot, Writing
    <2>4. ASSUME lane # "node", pc'[t] = "writing"
          PROVE  \E k \in 0..(Len(Callbacks) - 1), u \in ({0} \cup Ticks) \ {t} : WrittenTo(t, k, u)
      <3> DEFINE u == gauge[mine][1].tick
      <3>1. 1 \in Gauges
        BY DEF Gauges
      <3>2. u \in {0} \cup Ticks
        BY <3>1
      <3>3. u # t
        <4>1. t # 0
          BY DEF Ticks
        <4>2. gauge[mine][1].tick # 0 => pc[gauge[mine][1].tick] \in {"written", "writing"}
          BY <3>1 DEF GaugesFit
        <4> QED
          BY <2>1, <4>1, <4>2
      <3>4. ~Writing
        BY <2>1, <2>2 DEF Writing
      <3>5. \A g \in Gauges : gauge[mine][g].tick = u
        BY <3>1, <3>4 DEF GaugesFit, OneSnapshot
      <3>6. WrittenTo(t, 0, u)
        BY <3>5 DEF WrittenTo, Gauges
      <3> QED
        <4>1. 0 \in 0..(Len(Callbacks) - 1)
          OBVIOUS
        <4> HIDE DEF u
        <4> QED
          BY <3>2, <3>3, <3>6, <4>1
    <2>5. \A k, u : \A x \in Ticks : WrittenTo(x, k, u)' <=> WrittenTo(x, k, u)
      BY <2>1 DEF WrittenTo
    <2>6. ASSUME NEW x \in Ticks, lane # "node", pc'[x] = "writing"
          PROVE  \E k \in 0..(Len(Callbacks) - 1), u \in ({0} \cup Ticks) \ {x} : WrittenTo(x, k, u)'
      <3>1. x = t
        BY <2>1, <2>2, <2>6
      <3> QED
        BY <2>4, <2>5, <2>6, <3>1
    <2>7. ASSUME NEW s \in Services, NEW g \in Gauges, gauge[s][g].tick # 0
          PROVE  /\ s = mine
                 /\ pc'[gauge[s][g].tick] # "written" => lane # "node" /\ pc'[gauge[s][g].tick] = "writing"
      <3>1. gauge[s][g].tick \in Ticks /\ gauge[s][g].tick # t
        BY <2>1, <2>7 DEF GaugesFit
      <3> QED
        BY <2>1, <2>7, <3>1 DEF GaugesFit
    <2> QED
      BY <2>1, <2>3, <2>6, <2>7 DEF GaugesFit
  <1>3. ASSUME NEW t \in Ticks, Fail(t) PROVE GaugesFit'
    <2>1. /\ pc[t] = "reading" /\ pc' = [pc EXCEPT ![t] = "failed"]
          /\ UNCHANGED <<lane, mine, gauge>>
      BY <1>3 DEF Fail, KeepGauges
    <2>2. Writing' <=> Writing
      BY <2>1 DEF Writing
    <2> QED
      <3>1. \A k, u : \A x \in Ticks : WrittenTo(x, k, u)' <=> WrittenTo(x, k, u)
        BY <2>1 DEF WrittenTo
      <3>2. \A x \in Ticks : pc'[x] = "writing" => pc[x] = "writing"
        BY <2>1
      <3>3. OneSnapshot'
        BY <2>1, <2>2 DEF GaugesFit, OneSnapshot
      <3>4. ASSUME NEW s \in Services, NEW g \in Gauges, gauge[s][g].tick # 0
            PROVE  /\ s = mine
                   /\ pc'[gauge[s][g].tick] # "written" => lane # "node" /\ pc'[gauge[s][g].tick] = "writing"
        <4>1. gauge[s][g].tick \in Ticks /\ gauge[s][g].tick # t
          BY SMTT(20), <2>1, <3>4 DEF GaugesFit
        <4> QED
          BY <2>1, <3>4, <4>1 DEF GaugesFit
      <3> QED
        BY <2>1, <3>1, <3>2, <3>3, <3>4 DEF GaugesFit
  <1>4. ASSUME NEW t \in Ticks, WriteNext(t) PROVE GaugesFit'
    <2>1. lane # "node" /\ pc[t] = "writing"
      BY <1>4 DEF WriteNext
    <2>2. PICK g \in Gauges : g = NextGauge(t)
      BY <2>1, NextGaugeFits
    <2>3. PICK u \in ({0} \cup Ticks) \ {t} : WrittenTo(t, g - 1, u)
      BY <2>1, <2>2, NextGaugeFits
    <2>4. /\ gauge' = [gauge EXCEPT ![mine][g] = [tick |-> t, value |-> got[t][g]]]
          /\ pc' = [pc EXCEPT ![t] = IF g = Len(Callbacks) THEN "written" ELSE "writing"]
          /\ UNCHANGED <<lane, mine>>
      BY <1>4, <2>1, <2>2 DEF WriteNext, Written, EmitsUnder
    <2>5. /\ \A h \in Gauges : gauge'[mine][h].tick = IF h = g THEN t ELSE gauge[mine][h].tick
          /\ \A s \in Services : s # mine => gauge'[s] = gauge[s]
      BY <2>2, <2>4
    <2>6. WrittenTo(t, g, u)'
      <3>1. \A h \in Gauges : h <= g <=> (h = g \/ h <= g - 1)
        BY <2>2 DEF Gauges
      <3>2. \A h \in Gauges : gauge[mine][h].tick = IF h <= g - 1 THEN t ELSE u
        BY <2>3 DEF WrittenTo
      <3>3. \A h \in Gauges : gauge'[mine'][h].tick = IF h <= g THEN t ELSE u
        BY <2>4, <2>5, <3>1, <3>2
      <3> QED
        BY <3>3 DEF WrittenTo
    <2>7. ASSUME NEW s \in Services, NEW h \in Gauges, gauge'[s][h].tick # 0
          PROVE  s = mine /\ pc'[gauge'[s][h].tick] \in {"writing", "written"}
      <3>1. s = mine
        BY <2>5, <2>7 DEF GaugesFit
      <3>2. CASE h = g
        BY <2>1, <2>4, <2>5, <3>1, <3>2
      <3>3. CASE h # g
        <4>1. gauge'[s][h].tick = gauge[s][h].tick /\ gauge[s][h].tick \in Ticks
          BY <2>5, <2>7, <3>1, <3>3
        <4>2. pc[gauge[s][h].tick] \in {"writing", "written"}
          BY <2>1, <2>7, <4>1 DEF GaugesFit
        <4>3. pc'[gauge[s][h].tick] \in {"writing", "written"}
          BY <2>4, <4>1, <4>2
        <4> QED
          BY <3>1, <4>1, <4>3
      <3> QED
        BY <3>1, <3>2, <3>3
    <2>8. \A x \in Ticks : pc'[x] = "writing" => x = t
      BY <2>1, <2>4 DEF TicksFit, InTick
    <2>9. pc'[t] = "writing" =>
            \E k \in 0..(Len(Callbacks) - 1), x \in ({0} \cup Ticks) \ {t} : WrittenTo(t, k, x)'
      <3> SUFFICES ASSUME pc'[t] = "writing"
                   PROVE  g \in 0..(Len(Callbacks) - 1)
        BY <2>6
      <3>1. g # Len(Callbacks)
        BY <2>1, <2>4
      <3> QED
        BY <2>2, <3>1 DEF Gauges
    <2>10. OneSnapshot'
      <3> SUFFICES ASSUME ~Writing', NEW s \in Services, NEW h \in Gauges, NEW i \in Gauges
                   PROVE  gauge'[s][h].tick = gauge'[s][i].tick
        BY DEF OneSnapshot
      <3>1. g = Len(Callbacks)
        BY <2>1, <2>4 DEF Writing
      <3>2. CASE s = mine
        <4>1. \A x \in Gauges : x <= g
          BY <3>1 DEF Gauges
        <4>2. \A x \in Gauges : gauge'[mine'][x].tick = t
          BY <2>6, <4>1 DEF WrittenTo
        <4> QED
          BY <2>4, <3>2, <4>2
      <3>3. CASE s # mine
        <4>1. gauge[s][h].tick = 0 /\ gauge[s][i].tick = 0
          BY <3>3 DEF GaugesFit
        <4> QED
          BY <2>5, <3>3, <4>1
      <3> QED
        BY <3>2, <3>3
    <2> QED
      <3>1. ASSUME NEW x \in Ticks, pc'[x] = "writing"
            PROVE  \E k \in 0..(Len(Callbacks) - 1), y \in ({0} \cup Ticks) \ {x} : WrittenTo(x, k, y)'
        BY <2>8, <2>9, <3>1
      <3>2. \A s \in Services, h \in Gauges : gauge'[s][h].tick # 0 =>
              s = mine' /\ (pc'[gauge'[s][h].tick] # "written" =>
                               lane' # "node" /\ pc'[gauge'[s][h].tick] = "writing")
        BY <2>1, <2>4, <2>7
      <3> QED
        BY <2>10, <3>1, <3>2 DEF GaugesFit
  <1>5. ASSUME NEW t \in Ticks, WriteAll(t) PROVE GaugesFit'
    <2>1. /\ lane = "node" /\ UNCHANGED <<lane, mine>>
          /\ pc' = [pc EXCEPT ![t] = "written"]
          /\ \A g \in Gauges : gauge'[mine][g].tick = t
          /\ \A s \in Services : s # mine => gauge'[s] = gauge[s]
      BY <1>5 DEF WriteAll, EmitsUnder
    <2>2. ASSUME NEW s \in Services, NEW g \in Gauges, gauge'[s][g].tick # 0
          PROVE  s = mine /\ gauge'[s][g].tick = t
      BY <2>1, <2>2 DEF GaugesFit
    <2>3. OneSnapshot'
      <3> SUFFICES ASSUME NEW s \in Services, NEW h \in Gauges, NEW i \in Gauges
                   PROVE  gauge'[s][h].tick = gauge'[s][i].tick
        BY DEF OneSnapshot
      <3> QED
        <4>1. CASE s = mine
          BY <2>1, <4>1
        <4>2. CASE s # mine
          <5>1. gauge[s][h].tick = 0 /\ gauge[s][i].tick = 0
            BY <4>2 DEF GaugesFit
          <5> QED
            BY <2>1, <4>2, <5>1
        <4> QED
          BY <4>1, <4>2
    <2> QED
      BY <2>1, <2>2, <2>3 DEF GaugesFit
  <1>6. ASSUME UNCHANGED <<lane, mine, pc, gauge>> PROVE GaugesFit'
    BY <1>6 DEF GaugesFit, OneSnapshot, Writing, WrittenTo
  <1>7. ASSUME Stop \/ Exit \/ (\E s \in Services : SetService(s)) \/ Change PROVE GaugesFit'
    BY <1>6, <1>7 DEF Stop, Exit, SetService, Change
  <1>8. CASE UNCHANGED vars
    BY <1>6, <1>8 DEF vars
  <1> HIDE DEF PollersTypeOK
  <1> QED
    BY <1>1, <1>2, <1>3, <1>4, <1>5, <1>7, <1>8 DEF Next, TickStep

\* Values read and written.
LEMMA ValuesStep ==
    ASSUME PollersTypeOK, TicksFit, GaugesFit, ValuesFit, [Next]_vars
    PROVE  /\ ValuesFit'
           /\ lane # "node" => \A s \in Services, g \in Gauges :
                gauge[s][g].value <= gauge'[s][g].value
  <1> DEFINE Newer == lane # "node" => \A s \in Services, g \in Gauges :
                        gauge[s][g].value <= gauge'[s][g].value
  <1> USE PollersAssumption DEF PollersTypeOK, Sample
  <1>a. \A t \in Ticks, g \in Gauges : g <= Len(got[t]) => got[t][g] \in 0..MaxWorld
    <2> SUFFICES ASSUME NEW t \in Ticks, NEW g \in Gauges, g <= Len(got[t])
                 PROVE  got[t][g] \in 0..MaxWorld
      OBVIOUS
    <2>1. got[t] \in Seq(0..MaxWorld) /\ g \in 1..Len(got[t])
      BY DEF Gauges
    <2> QED
      BY <2>1
  <1>b. \A s \in Services, g \in Gauges : gauge[s][g].value \in 0..MaxWorld
    OBVIOUS
  <1>0. ASSUME InTick' \subseteq InTick, UNCHANGED <<lane, mine, got, gauge>>, world <= world',
               world' \in 0..MaxWorld
        PROVE  ValuesFit' /\ Newer
    BY <1>0, <1>a, <1>b DEF ValuesFit
  <1>1. ASSUME NEW t \in Ticks, Begin(t) PROVE ValuesFit' /\ Newer
    <2>1. /\ got[t] = << >> /\ UNCHANGED <<lane, mine, world, got, gauge>>
          /\ \A x \in InTick' : x = t \/ x \in InTick
      BY <1>1 DEF Begin, TicksFit, InTick
    <2>2. \A g \in Gauges : ~(g <= Len(got[t]))
      BY <2>1 DEF Gauges
    <2>3. Newer
      BY <1>b, <2>1
    <2> QED
      BY <2>1, <2>2, <2>3 DEF ValuesFit
  <1>2. ASSUME NEW t \in Ticks, Read(t) PROVE ValuesFit' /\ Newer
    <2>1. /\ got[t] \in Seq(0..MaxWorld) /\ t \in InTick
          /\ got' = [got EXCEPT ![t] = Append(got[t], world)]
          /\ InTick' \subseteq InTick
          /\ UNCHANGED <<lane, mine, world, gauge>>
      BY <1>2 DEF Read, WhileReading, InTick
    <2>2. got'[t] = Append(got[t], world) /\ \A x \in Ticks : x # t => got'[x] = got[x]
      BY <2>1
    <2>3. ASSUME NEW g \in Gauges, g <= Len(got'[t])
          PROVE  /\ got'[t][g] <= world
                 /\ lane # "node" => gauge[mine][g].value <= got'[t][g]
      <3>1. Len(got'[t]) = Len(got[t]) + 1 /\ Len(got[t]) \in Nat /\ g \in Nat
        BY <2>1, <2>2 DEF Gauges
      <3>2. CASE g <= Len(got[t])
        <4>1. got'[t][g] = got[t][g]
          BY <2>1, <2>2, <3>2 DEF Gauges
        <4> QED
          BY <2>1, <3>2, <4>1 DEF ValuesFit
      <3>3. CASE g = Len(got[t]) + 1
        <4>1. got'[t][g] = world
          BY <2>1, <2>2, <3>3
        <4> QED
          BY <4>1 DEF ValuesFit
      <3> QED
        BY <2>3, <3>1, <3>2, <3>3
    <2>4. \A x \in Ticks, g \in Gauges : g <= Len(got'[x]) =>
            /\ got'[x][g] <= world
            /\ lane # "node" /\ x \in InTick' => gauge[mine][g].value <= got'[x][g]
      <3> SUFFICES ASSUME NEW x \in Ticks, NEW g \in Gauges, g <= Len(got'[x])
                   PROVE  /\ got'[x][g] <= world
                          /\ lane # "node" /\ x \in InTick' => gauge[mine][g].value <= got'[x][g]
        OBVIOUS
      <3>1. CASE x = t
        BY <2>3, <3>1
      <3>2. CASE x # t
        BY <2>1, <2>2, <3>2 DEF ValuesFit
      <3> QED
        BY <3>1, <3>2
    <2>5. Newer
      BY <1>b, <2>1
    <2>6. \A s \in Services, g \in Gauges : gauge'[s][g].value <= world'
      BY <2>1 DEF ValuesFit
    <2> QED
      BY <2>1, <2>4, <2>5, <2>6 DEF ValuesFit
  <1>3. ASSUME NEW t \in Ticks, Fail(t) PROVE ValuesFit' /\ Newer
    <2>1. InTick' \subseteq InTick /\ UNCHANGED <<lane, mine, world, got, gauge>>
      BY <1>3 DEF Fail, KeepGauges, InTick
    <2> QED
      BY <1>0, <2>1
  <1>4. ASSUME NEW t \in Ticks, WriteNext(t) PROVE ValuesFit' /\ Newer
    <2>1. lane # "node" /\ pc[t] = "writing" /\ t \in InTick /\ Len(got[t]) = Len(Callbacks)
      BY <1>4 DEF WriteNext, InTick, TicksFit
    <2>2. PICK g \in Gauges : g = NextGauge(t)
      BY <2>1, NextGaugeFits
    <2>3. /\ gauge' = [gauge EXCEPT ![mine][g] = [tick |-> t, value |-> got[t][g]]]
          /\ UNCHANGED <<lane, mine, world, got>>
          /\ InTick' \subseteq InTick
      BY <1>4, <2>1, <2>2 DEF WriteNext, Written, EmitsUnder, InTick
    <2>4. g <= Len(got[t])
      BY <2>1 DEF Gauges
    <2>5. /\ gauge[mine][g].value <= got[t][g] /\ got[t][g] <= world
          /\ got[t][g] \in 0..MaxWorld
      BY <1>a, <2>1, <2>4 DEF ValuesFit
    <2>6. \A s \in Services, h \in Gauges :
            gauge'[s][h].value = IF s = mine /\ h = g THEN got[t][g] ELSE gauge[s][h].value
      BY <2>3
    <2>7. \A s \in Services, h \in Gauges :
            gauge[s][h].value <= gauge'[s][h].value /\ gauge'[s][h].value <= world
      <3>1. \A s \in Services, h \in Gauges :
              gauge[s][h].value <= gauge[s][h].value /\ gauge[s][h].value <= world
        BY <1>b DEF ValuesFit
      <3>2. ASSUME NEW s \in Services, NEW h \in Gauges
            PROVE  gauge[s][h].value <= gauge'[s][h].value /\ gauge'[s][h].value <= world
        <4>1. CASE s = mine /\ h = g
          <5>1. gauge'[s][h].value = got[t][g]
            BY <2>6, <4>1
          <5> QED
            BY <2>5, <4>1, <5>1
        <4>2. CASE ~(s = mine /\ h = g)
          <5>1. gauge'[s][h].value = gauge[s][h].value
            BY <2>6, <4>2
          <5> QED
            BY <3>1, <5>1
        <4> QED
          BY <4>1, <4>2
      <3> QED
        BY <3>2
    <2>8. \A x \in InTick : x = t
      BY <2>1 DEF TicksFit
    <2>9. \A h \in Gauges : h <= Len(got[t]) => gauge'[mine][h].value <= got[t][h]
      <3>1. ASSUME NEW h \in Gauges, h <= Len(got[t])
            PROVE  gauge'[mine][h].value <= got[t][h]
        <4>1. gauge[mine][h].value <= got[t][h] /\ got[t][h] \in 0..MaxWorld
          BY <1>a, <2>1, <3>1 DEF ValuesFit
        <4>2. CASE h = g
          <5>1. gauge'[mine][h].value = got[t][h]
            BY <2>6, <4>2
          <5> QED
            BY <4>1, <5>1
        <4>3. CASE h # g
          <5>1. gauge'[mine][h].value = gauge[mine][h].value
            BY <2>6, <4>3
          <5> QED
            BY <4>1, <5>1
        <4> QED
          BY <4>2, <4>3
      <3> QED
        BY <3>1
    <2> QED
      BY <2>3, <2>7, <2>8, <2>9 DEF ValuesFit
  <1>5. ASSUME NEW t \in Ticks, WriteAll(t) PROVE ValuesFit' /\ Newer
    <2>1. /\ lane = "node" /\ UNCHANGED <<lane, world, got>>
          /\ Len(got[t]) = Len(Callbacks)
      BY <1>5 DEF WriteAll, TicksFit
    <2>2. \A g \in Gauges : got[t][g] <= world
      BY <2>1 DEF ValuesFit, Gauges
    <2>3. \A s \in Services, g \in Gauges :
            gauge'[s][g].value = IF s = mine THEN got[t][g] ELSE gauge[s][g].value
      BY <1>5 DEF WriteAll, EmitsUnder
    <2> QED
      BY <2>1, <2>2, <2>3 DEF ValuesFit
  <1>6. ASSUME Stop \/ Exit \/ (\E s \in Services : SetService(s)) PROVE ValuesFit' /\ Newer
    <2>1. UNCHANGED <<lane, mine, world, pc, got, gauge>>
      BY <1>6 DEF Stop, Exit, SetService
    <2> QED
      BY <1>0, <2>1 DEF InTick
  <1>7. ASSUME Change PROVE ValuesFit' /\ Newer
    <2>1. UNCHANGED <<lane, mine, pc, got, gauge>> /\ world < MaxWorld /\ world' = world + 1
      BY <1>7 DEF Change
    <2> QED
      BY <1>0, <2>1 DEF InTick
  <1>8. CASE UNCHANGED vars
    BY <1>0, <1>8 DEF vars, InTick
  <1> HIDE DEF PollersTypeOK
  <1> QED
    BY <1>1, <1>2, <1>3, <1>4, <1>5, <1>6, <1>7, <1>8 DEF Next, TickStep

-----------------------------------------------------------------------------
(* The theorems.                                                           *)

\* A tracker starts with absent gauges, and at most Node's first tick begun.
LEMMA InitPollers == Init => PollersInv
  <1> SUFFICES ASSUME Init PROVE PollersInv
    OBVIOUS
  <1> USE PollersAssumption DEF Init
  <1>1. PollersTypeOK
    <2>1. Absent \in Sample
      BY DEF Absent, Sample
    <2>2. got \in [Ticks -> Seq(0..MaxWorld)] /\ \A t \in Ticks : Len(got[t]) <= Len(Callbacks)
      OBVIOUS
    <2>3. pc \in [Ticks -> {"waiting", "reading", "writing"} \cup Ended]
      OBVIOUS
    <2>4. gauge \in [Services -> [Gauges -> Sample]] /\ began \in [Ticks -> Services]
      BY <2>1
    <2>5. mine \in Services /\ world \in 0..MaxWorld
      OBVIOUS
    <2> QED
      BY <2>2, <2>3, <2>4, <2>5 DEF PollersTypeOK
  <1>2. TicksFit
    BY DEF TicksFit, InTick
  <1>3. GaugesFit
    BY DEF GaugesFit, Absent, OneSnapshot
  <1>4. ValuesFit
    BY DEF ValuesFit, Absent, Gauges
  <1> QED
    BY <1>1, <1>2, <1>3, <1>4 DEF PollersInv

\* The invariant that the properties follow from: one tick of a thread at a time,
\* which writes its gauges in order.
THEOREM PollersInvariant == Spec => []PollersInv
  <1>1. PollersInv /\ [Next]_vars => PollersInv'
    BY PollersTypeStep, TicksStep, GaugesStep, ValuesStep DEF PollersInv
  <1> QED
    BY InitPollers, <1>1, PTL DEF Spec

\* The values that the gauges, the ticks and the label can have.
THEOREM PollersTypes == Spec => []PollersTypeOK
  <1>1. PollersInv => PollersTypeOK
    BY DEF PollersInv
  <1> QED
    BY PollersInvariant, <1>1, PTL

\* A scrape between two ticks sees the values of one tick in all the gauges of the
\* pool, however many ticks overlap or fail (_baseline.py:462-467,
\* baseline.ts:405-409, baseline.go:159-163).
THEOREM PollersOneSnapshot == Spec => []OneSnapshot
  <1>1. PollersInv => OneSnapshot
    BY DEF PollersInv, GaugesFit
  <1> QED
    BY PollersInvariant, <1>1, PTL

\* No value of a failed tick is ever shown (_baseline.py:281-286).
THEOREM PollersFailedTick == Spec => []FailedTickInvisible
  <1>1. PollersInv => FailedTickInvisible
    BY DEF PollersInv, GaugesFit, FailedTickInvisible
  <1> QED
    BY PollersInvariant, <1>1, PTL

\* The values that a thread shows never go back to an older state of the pool.
THEOREM PollersNeverOlder == Spec => NeverOlder
  <1>1. PollersInv /\ [Next]_vars =>
          [lane # "node" => \A s \in Services, g \in Gauges :
              gauge[s][g].value <= gauge[s][g].value']_vars
    BY ValuesStep DEF PollersInv
  <1> QED
    BY PollersInvariant, <1>1, PTL DEF Spec, NeverOlder
=============================================================================
