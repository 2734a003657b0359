-------------------------- MODULE NodeInstallProofs ---------------------------
(***************************************************************************)
(* Theorems about NodeInstall, for any apps, services, paths, scrapes and  *)
(* faults: the types, the process series, the wiring of the apps and of    *)
(* emit, the host's handlers and, when no sentinel but the server's is     *)
(* cleared, the exempted metrics route and, when besides no statement      *)
(* throws half-way, the refinement of InstallTxn.                          *)
(*                                                                         *)
(* One lemma per conjunct of the invariant says that every step keeps it.  *)
(***************************************************************************)
EXTENDS NodeInstall, SequenceTheorems, FiniteSetTheorems, TLAPS

\* The values of cur.proc.
Procs == {"none", "reused", "registered", "service-swap"}

\* The locals of an install stay locals when a statement assigns to them.
LEMMA LocalsChange ==
    ASSUME NEW l \in Locals
    PROVE  /\ \A x \in Procs : [l EXCEPT !.proc = x] \in Locals
           /\ \A x \in Procs, n \in Names \cup {NoName} :
                [l EXCEPT !.proc = x, !.prior = n] \in Locals
           /\ \A k \in Keys, b \in BOOLEAN : [l EXCEPT !.key = k, !.wasNew = b] \in Locals
  <1>1. \A x \in Procs : [l EXCEPT !.proc = x] \in Locals
    BY DEF Locals, Procs
  <1>2. \A x \in Procs, n \in Names \cup {NoName} : [l EXCEPT !.proc = x, !.prior = n] \in Locals
    BY DEF Locals, Procs
  <1>3. \A k \in Keys, b \in BOOLEAN : [l EXCEPT !.key = k, !.wasNew = b] \in Locals
    BY DEF Locals, Procs
  <1> QED
    BY <1>1, <1>2, <1>3

\* Those of no install are locals too.
LEMMA IdleFits ==
  /\ Idle \in Locals /\ Idle.pre = NoName /\ Idle.depth = 0 /\ Idle.proc = "none"
  /\ Idle.prior = NoName /\ Idle.wasNew = FALSE
  <1>1. PICK n : n = CHOOSE m \in Names : TRUE
    OBVIOUS
  <1>2. PICK a : a = CHOOSE m \in Apps : TRUE
    OBVIOUS
  <1>3. PICK p : p = CHOOSE m \in AnyPath : TRUE
    OBVIOUS
  <1>4. PICK t : t = CHOOSE m \in Seconds : TRUE
    OBVIOUS
  <1>5. n \in Names /\ a \in Apps /\ p \in AnyPath /\ t \in Seconds
    <2>1. Names # {} /\ Apps # {} /\ Seconds # {}
      BY NodeNamesAssumption, NodeParametersAssumption
    <2>2. AnyPath # {}
      BY <2>1, NodeParametersAssumption DEF AnyPath
    <2> QED
      BY <1>1, <1>2, <1>3, <1>4, <2>1, <2>2
  <1>6. Idle = [app |-> a, name |-> n, path |-> p,
         pre |-> NoName, depth |-> 0, proc |-> "none", prior |-> NoName,
         key |-> <<n, t>>, wasNew |-> FALSE, seen |-> [m \in Names |-> 0]]
    BY <1>1, <1>2, <1>3, <1>4 DEF Idle
  <1>7. [m \in Names |-> 0] \in [Names -> Nat] /\ <<n, t>> \in Keys
    BY <1>5 DEF Keys
  <1> QED
    BY <1>5, <1>6, <1>7 DEF Locals

\* What a rollback cuts to is there to cut to.
DepthFits ==
    /\ Server \in Apps /\ origEmit # NoName => origEmit <= Len(stack[Server])
    /\ ~AtRest =>
         /\ cur.app \in Express \cup Hono \cup {Server}
         /\ at \in {"props", "wire"} => cur.app # Server
         /\ cur.depth <= Len(stack[cur.app])
         /\ cur.app = Server => cur.depth = PriorDepth(Server)

\* The CPU series, and what the install that runs has done to them.
SeriesFits ==
    /\ registered <=> label # NoName
    /\ \A n \in Names : counter[n] > 0 => n = label
    /\ \A n \in Names : counter[n] <= last
    /\ last <= cpu
    /\ pending # {} => registered
    /\ at \in {"idle", "set_service", "process"} => cur.proc = "none"
    /\ cur.proc = "registered" => registered /\ pending = {}
    /\ cur.proc = "service-swap" => registered /\ cur.prior \in Names

\* A handler is added on top of the others or not at all.
LEMMA AddedFacts ==
    ASSUME NodeTypeOK, NEW what \in {"route", "recorder"}
    PROVE  /\ Handler(what) \in Layers /\ Handler(what).what = what
           /\ Added(what) \in Seq(Layers)
           /\ Len(Added(what)) \in {Len(stack[cur.app]), Len(stack[cur.app]) + 1}
           /\ \A i \in 1..Len(stack[cur.app]) : Added(what)[i] = stack[cur.app][i]
           /\ \A i \in DOMAIN Added(what) :
                i \in 1..Len(stack[cur.app])
                \/ (i = Len(stack[cur.app]) + 1 /\ Added(what)[i] = Handler(what)
                    /\ ~(cur.app \in Hono /\ Wired(cur.app, what) # {}))
  <1>1. cur.app \in Apps /\ cur.name \in Names /\ cur.path \in AnyPath
    BY DEF NodeTypeOK, Locals
  <1>2. Handler(what) \in Layers /\ Handler(what).what = what
    BY <1>1 DEF Handler, Layers
  <1>3. stack[cur.app] \in Seq(Layers)
    BY <1>1 DEF NodeTypeOK
  <1>4. /\ Append(stack[cur.app], Handler(what)) \in Seq(Layers)
        /\ Len(Append(stack[cur.app], Handler(what))) = Len(stack[cur.app]) + 1
        /\ \A i \in 1..Len(stack[cur.app]) :
             Append(stack[cur.app], Handler(what))[i] = stack[cur.app][i]
        /\ Append(stack[cur.app], Handler(what))[Len(stack[cur.app]) + 1] = Handler(what)
    BY <1>2, <1>3, AppendProperties
  <1>5. \A s \in Seq(Layers) : DOMAIN s = 1..Len(s) /\ Len(s) \in Nat
    OBVIOUS
  <1>6. CASE cur.app \in Hono /\ Wired(cur.app, what) # {}
    <2>1. Added(what) = stack[cur.app]
      BY <1>6 DEF Added
    <2> QED
      BY <1>2, <1>3, <1>5, <2>1
  <1>7. CASE ~(cur.app \in Hono /\ Wired(cur.app, what) # {})
    <2>1. Added(what) = Append(stack[cur.app], Handler(what))
      BY <1>7 DEF Added
    <2> QED
      BY <1>2, <1>3, <1>4, <1>5, <1>7, <2>1
  <1> QED
    BY <1>6, <1>7

\* A rollback leaves the handlers that were there before.
LEMMA UnwoundFacts ==
    ASSUME NodeTypeOK, DepthFits, ~AtRest
    PROVE  /\ Unwound(cur.app) \in Seq(Layers)
           /\ Len(Unwound(cur.app)) = IF cur.app \in Express THEN cur.depth ELSE Len(stack[cur.app])
           /\ \A i \in 1..Len(Unwound(cur.app)) : Unwound(cur.app)[i] = stack[cur.app][i]
  <1>1. cur.app \in Apps /\ cur.depth \in Nat /\ cur.depth <= Len(stack[cur.app])
    BY DEF NodeTypeOK, Locals, DepthFits
  <1>2. stack[cur.app] \in Seq(Layers)
    BY <1>1 DEF NodeTypeOK
  <1>3. CASE cur.app \in Express
    <2>1. \A i \in 1..cur.depth : stack[cur.app][i] \in Layers
      BY <1>1, <1>2
    <2> QED
      BY <1>1, <1>3, <2>1, SubSeqProperties DEF Unwound
  <1>4. CASE cur.app \notin Express
    BY <1>2, <1>4 DEF Unwound
  <1> QED
    BY <1>3, <1>4

\* installNext's patch lies on the original emit.
LEMMA PatchedFacts ==
    ASSUME NodeTypeOK, DepthFits, ~AtRest, cur.app = Server,
           NEW s, s = Append(SubSeq(stack[Server], 1, cur.depth), Handler("recorder"))
    PROVE  /\ s \in Seq(Layers) /\ Len(s) = cur.depth + 1
           /\ \A i \in 1..cur.depth : s[i] = stack[Server][i]
           /\ s[cur.depth + 1] = Handler("recorder")
  <1>1. Server \in Apps /\ cur.depth \in Nat /\ cur.depth <= Len(stack[Server])
    BY DEF NodeTypeOK, Locals, DepthFits
  <1>2. stack[Server] \in Seq(Layers)
    BY <1>1 DEF NodeTypeOK
  <1>3. \A i \in 1..cur.depth : stack[Server][i] \in Layers
    BY <1>1, <1>2
  <1>4. /\ SubSeq(stack[Server], 1, cur.depth) \in Seq(Layers)
        /\ Len(SubSeq(stack[Server], 1, cur.depth)) = cur.depth
        /\ \A i \in 1..cur.depth : SubSeq(stack[Server], 1, cur.depth)[i] = stack[Server][i]
    BY <1>1, <1>3, SubSeqProperties
  <1>5. Handler("recorder") \in Layers
    BY AddedFacts
  <1> QED
    BY <1>1, <1>4, <1>5, AppendProperties

\* Removing a series leaves a function on the names.
LEMMA WithoutFacts ==
    ASSUME counter \in [Names -> 0..MaxCpu], NEW n
    PROVE  /\ WithoutSeries(n) \in [Names -> 0..MaxCpu]
           /\ \A m \in Names : WithoutSeries(n)[m] = IF m = n THEN 0 ELSE counter[m]
  <1>1. 0 \in 0..MaxCpu
    BY NodeParametersAssumption
  <1> QED
    BY <1>1 DEF WithoutSeries

\* Trimmed names are names.
LEMMA StripFacts ==
    /\ \A n \in Names : Strip[n] \in Names /\ Strip[Strip[n]] = Strip[n]
    /\ NoName \notin Names /\ NoName \notin Nat /\ Asked \subseteq Names
  BY NodeNamesAssumption, NodeParametersAssumption

\* The locals of an install that begins.
LEMMA BeginFacts ==
    ASSUME NodeTypeOK, NEW a \in Apps, NEW n \in Asked, NEW p \in Paths[a], Begin(a, n, p)
    PROVE  /\ cur' \in Locals /\ cur'.app = a /\ cur'.name = n /\ cur'.path = p
           /\ cur'.pre = identity /\ cur'.depth = PriorDepth(a) /\ cur'.proc = "none"
           /\ cur'.prior = NoName /\ cur'.wasNew = FALSE /\ cur'.seen = counter
  <1>1. PriorDepth(a) \in Nat
    BY DEF PriorDepth, NodeTypeOK
  <1>2. counter \in [Names -> Nat] /\ identity \in Names \cup {NoName}
    BY NodeParametersAssumption DEF NodeTypeOK
  <1>3. Idle \in Locals
    BY IdleFits
  <1>4. p \in AnyPath /\ n \in Names
    BY StripFacts DEF AnyPath
  <1>5. cur' = [Idle EXCEPT !.app = a, !.name = n, !.path = p, !.pre = identity,
                            !.depth = PriorDepth(a), !.seen = counter]
    BY DEF Begin
  <1>6. cur' \in Locals
    BY <1>1, <1>2, <1>3, <1>4, <1>5 DEF Locals
  <1>7. /\ cur'.app = a /\ cur'.name = n /\ cur'.path = p /\ cur'.pre = identity
        /\ cur'.depth = PriorDepth(a) /\ cur'.seen = counter /\ cur'.proc = Idle.proc
        /\ cur'.prior = Idle.prior /\ cur'.wasNew = Idle.wasNew
    BY <1>3, <1>5 DEF Locals
  <1> QED
    BY <1>6, <1>7, IdleFits

\* The ways an install can end in the catch block.
Throws ==
    \/ ThrowAndRollBack \/ ThrowHalfRegistered
    \/ \E t \in Seconds : ThrowHalfBuilt(t)

\* It runs to its end, after any of them.
LEMMA ThrowFacts ==
    ASSUME Throws
    PROVE  ~AtRest /\ AtRest' /\ at \in Statements /\ Abandon
  <1>1. CASE ThrowAndRollBack
    BY <1>1, NodeParametersAssumption DEF ThrowAndRollBack, Abandon, AtRest, Statements
  <1>2. CASE ThrowHalfRegistered
    BY <1>2 DEF ThrowHalfRegistered, Abandon, AtRest, Statements
  <1>3. ASSUME NEW t \in Seconds, ThrowHalfBuilt(t)
        PROVE  ~AtRest /\ AtRest' /\ at \in Statements /\ Abandon
    BY <1>3 DEF ThrowHalfBuilt, Abandon, AtRest, Statements
  <1> QED
    BY <1>1, <1>2, <1>3 DEF Throws

\* The types of what the process collector's statements write.
LEMMA NodeTypeStep ==
    ASSUME NodeTypeOK, DepthFits, SeriesFits, [Next]_vars
    PROVE  NodeTypeOK'
  <1> USE StripFacts
  <1> USE DEF NodeTypeOK, Statements
  <1>1. ASSUME NEW a \in Apps, NEW n \in Asked, NEW p \in Paths[a], Begin(a, n, p)
        PROVE  NodeTypeOK'
    <2>2. cur' \in Locals
      BY <1>1, BeginFacts
    <2> QED
      BY <1>1, <2>2 DEF Begin, Step, procVars, buildVars, appVars, envVars
  <1>2. CASE SetService
    <2>1. cur.name \in Names
      BY DEF Locals
    <2> QED
      BY <1>2, <2>1 DEF SetService, Step, procVars, buildVars, appVars, envVars
  <1>3. CASE ReuseProcess
    <2>1. cur' \in Locals
      BY <1>3, LocalsChange DEF ReuseProcess, Procs
    <2> QED
      BY <1>3, <2>1 DEF ReuseProcess, Step, procVars, buildVars, appVars, envVars
  <1>4. CASE SwapProcess
    <2>1. cur' \in Locals
      BY <1>4, LocalsChange DEF SwapProcess, Procs
    <2>2. cur.name \in Names
      BY DEF Locals
    <2>3. counter' \in [Names -> 0..MaxCpu]
      BY <1>4, WithoutFacts DEF SwapProcess
    <2> QED
      BY <1>4, <2>1, <2>2, <2>3 DEF SwapProcess, Step, procVars, buildVars, appVars, envVars
  <1>5. CASE FreshProcess
    <2>1. cur' \in Locals
      BY <1>5, LocalsChange DEF FreshProcess, Procs
    <2>2. cur.name \in Names
      BY DEF Locals
    <2> QED
      BY <1>5, <2>1, <2>2 DEF FreshProcess, Step, procVars, buildVars, appVars, envVars
  <1>6. CASE RegisterDefaults
    <2>1. cur.name \in Names
      BY DEF Locals
    <2> QED
      BY <1>6, <2>1 DEF RegisterDefaults, Step, procVars, buildVars, appVars, envVars
  <1>7. ASSUME NEW t \in Seconds, RegisterBuildInfo(t) PROVE NodeTypeOK'
    <2>1. cur.name \in Names
      BY DEF Locals
    <2>2. <<cur.name, t>> \in Keys
      BY <2>1 DEF Keys
    <2>5. builds' \subseteq Keys /\ owned' \subseteq Keys
      BY <1>7, <2>2 DEF RegisterBuildInfo
    <2>3. IsNew(<<cur.name, t>>) \in BOOLEAN
      BY DEF IsNew
    <2>4. cur' \in Locals
      <3> DEFINE k == <<cur.name, t>>
                 b == IsNew(k)
      <3>1. cur' = [cur EXCEPT !.key = k, !.wasNew = b]
        BY <1>7 DEF RegisterBuildInfo
      <3>2. cur \in Locals
        OBVIOUS
      <3> HIDE DEF NodeTypeOK, k, b
      <3> QED
        BY <2>2, <2>3, <3>1, <3>2, LocalsChange, Zenon DEF k, b
    <2> QED
      BY <1>7, <2>4, <2>5 DEF RegisterBuildInfo, Step, procVars, buildVars, appVars, envVars
  <1>8. CASE SetProps
    <2>1. cur.name \in Names /\ cur.path \in AnyPath
      BY DEF Locals
    <2> QED
      BY <1>8, <2>1 DEF SetProps, Step, procVars, buildVars, appVars, envVars
  <1>9. ASSUME NEW what \in {"route", "recorder"}, Wire(what) PROVE NodeTypeOK'
    <2>1. Added(what) \in Seq(Layers)
      BY AddedFacts
    <2>2. stack' \in [Apps -> Seq(Layers)]
      BY <1>9, <2>1 DEF Wire
    <2> QED
      BY <1>9, <2>2 DEF Wire, Step, procVars, buildVars, appVars, envVars
  <1>10. ASSUME NEW what \in {"route", "recorder"}, WireLast(what) PROVE NodeTypeOK'
    <2>1. Added(what) \in Seq(Layers)
      BY AddedFacts
    <2>2. stack' \in [Apps -> Seq(Layers)]
      BY <1>10, <2>1 DEF WireLast
    <2>3. installed' \in [Apps -> BOOLEAN]
      BY <1>10 DEF WireLast
    <2> QED
      BY <1>10, <2>2, <2>3, IdleFits DEF WireLast, Step, procVars, buildVars, appVars, envVars
  <1>11. CASE PatchEmit
    <2>1. ~AtRest
      BY <1>11 DEF PatchEmit, Step, AtRest
    <2>2. Append(SubSeq(stack[Server], 1, cur.depth), Handler("recorder")) \in Seq(Layers)
      BY <1>11, <2>1, PatchedFacts DEF PatchEmit
    <2>3. stack' \in [Apps -> Seq(Layers)]
      BY <1>11, <2>2 DEF PatchEmit
    <2>4. installed' \in [Apps -> BOOLEAN]
      BY <1>11 DEF PatchEmit
    <2>5. origEmit' \in Nat \cup {NoName}
      BY <1>11 DEF PatchEmit, Locals
    <2> QED
      BY <1>11, <2>3, <2>4, <2>5, IdleFits DEF PatchEmit, Step, procVars, buildVars, appVars, envVars
  <1>12. ASSUME RestoreProcess
         PROVE  /\ label' \in Names \cup {NoName} /\ counter' \in [Names -> 0..MaxCpu]
                /\ registered' \in BOOLEAN /\ last' \in 0..MaxCpu
    <2>1. 0 \in 0..MaxCpu /\ WithoutSeries(label) \in [Names -> 0..MaxCpu]
      BY NodeParametersAssumption, WithoutFacts
    <2>2. cur.prior \in Names \cup {NoName}
      BY DEF Locals
    <2>3. LabelRestored \in Names \cup {NoName} /\ CounterRestored \in [Names -> 0..MaxCpu]
      BY <2>1, <2>2 DEF LabelRestored, CounterRestored
    <2> QED
      BY <1>12, <2>1, <2>3 DEF RestoreProcess
  <1>19. ASSUME Throws
         PROVE  /\ at' \in {"idle"} \cup Statements /\ cur' \in Locals
                /\ installed' \in [Apps -> BOOLEAN] /\ identity' \in Names \cup {NoName}
                /\ live' \in [Apps -> [name : Names \cup {NoName}, path : AnyPath \cup {NoName}]]
                /\ stack' \in [Apps -> Seq(Layers)]
                /\ UNCHANGED <<defaults, origEmit, cpu, pending>>
    <2>1. ~AtRest /\ Abandon
      BY <1>19, ThrowFacts
    <2>2. cur.pre \in Names \cup {NoName}
      BY DEF Locals
    <2>3. stack' \in [Apps -> Seq(Layers)]
      BY <2>1, UnwoundFacts DEF Abandon
    <2> QED
      BY <2>1, <2>2, <2>3, IdleFits DEF Abandon, NoLive, envVars
  <1>20. CASE ThrowAndRollBack
    <2>1. builds' \subseteq Keys /\ owned' \subseteq Keys
      BY <1>20 DEF ThrowAndRollBack, BuildsRestored
    <2> QED
      BY <1>12, <1>19, <1>20, <2>1 DEF ThrowAndRollBack, Throws
  <1>21. CASE ThrowHalfRegistered
    <2>1. cur.name \in Names
      BY DEF Locals
    <2> QED
      BY <1>19, <1>21, <2>1 DEF ThrowHalfRegistered, Throws, buildVars
  <1>22. ASSUME NEW t \in Seconds, ThrowHalfBuilt(t) PROVE NodeTypeOK'
    <2>1. <<cur.name, t>> \in Keys
      BY DEF Locals, Keys
    <2> QED
      BY <1>12, <1>19, <1>22, <2>1 DEF ThrowHalfBuilt, Throws
  <1>13. ASSUME NEW x \in Scrapes, StartScrape(x) PROVE NodeTypeOK'
    BY <1>13 DEF StartScrape, procVars, buildVars, appVars
  <1>14. ASSUME NEW x \in Scrapes, CollectCpu(x) PROVE NodeTypeOK'
    <2>1. counter' \in [Names -> 0..MaxCpu]
      <3>1. CASE CpuDelta > 0 /\ label \in Names
        <4>1. counter[label] <= last /\ CpuDelta = cpu - last
          BY <3>1, NodeParametersAssumption DEF SeriesFits, CpuDelta
        <4>2. counter[label] + CpuDelta \in 0..MaxCpu
          BY <3>1, <4>1, NodeParametersAssumption
        <4> QED
          BY <1>14, <3>1, <4>2 DEF CollectCpu
      <3>2. CASE ~(CpuDelta > 0 /\ label \in Names)
        BY <1>14, <3>2 DEF CollectCpu
      <3> QED
        BY <3>1, <3>2
    <2> QED
      BY <1>14, <2>1 DEF CollectCpu, Remembered, appVars, buildVars
  <1>15. CASE ConsumeCpu
    BY <1>15, NodeParametersAssumption DEF ConsumeCpu, procVars, buildVars, appVars
  <1>16. ASSUME NEW a \in Apps, HostAdds(a) PROVE NodeTypeOK'
    <2>1. HostLayer \in Layers
      BY DEF HostLayer, Layers
    <2>2. Append(stack[a], HostLayer) \in Seq(Layers)
      BY <2>1, AppendProperties
    <2>3. stack' \in [Apps -> Seq(Layers)]
      BY <1>16, <2>2 DEF HostAdds
    <2> QED
      BY <1>16, <2>3 DEF HostAdds, procVars, buildVars, envVars
  <1>17. ASSUME NEW a \in Apps, ClearSentinel(a) PROVE NodeTypeOK'
    <2>1. installed' \in [Apps -> BOOLEAN]
      BY <1>17 DEF ClearSentinel
    <2> QED
      BY <1>17, <2>1 DEF ClearSentinel, procVars, buildVars, envVars
  <1>18. CASE UNCHANGED vars
    BY <1>18 DEF vars, procVars, buildVars, appVars, envVars
  <1> HIDE DEF NodeTypeOK
  <1> QED
    BY <1>1, <1>2, <1>3, <1>4, <1>5, <1>6, <1>7, <1>8, <1>9, <1>10, <1>11,
       <1>13, <1>14, <1>15, <1>16, <1>17, <1>18, <1>20, <1>21, <1>22
    DEF Next, Install, NothingToInstall

\* The statements that leave the app's handlers alone.
MidStep ==
    \/ SetService \/ ReuseProcess \/ SwapProcess \/ FreshProcess \/ RegisterDefaults
    \/ \E t \in Seconds : RegisterBuildInfo(t)
    \/ SetProps

\* They keep the call's arguments, and the handlers.
LEMMA MidFacts ==
    ASSUME NodeTypeOK, MidStep
    PROVE  /\ ~AtRest /\ ~AtRest' /\ at # "wire_last"
           /\ at' = "wire_last" => cur.app = Server
           /\ at' = "props" => cur.app # Server
           /\ at' = "wire" => at = "props"
           /\ cur'.app = cur.app /\ cur'.name = cur.name /\ cur'.path = cur.path
           /\ cur'.pre = cur.pre /\ cur'.depth = cur.depth
           /\ UNCHANGED <<installed, stack, origEmit, cpu, pending>>
  <1> USE DEF Step, AtRest, appVars, buildVars, envVars
  <1>1. cur \in Locals
    BY DEF NodeTypeOK
  <1>2. CASE SetService
    BY <1>2 DEF SetService
  <1>3. CASE ReuseProcess
    BY <1>1, <1>3 DEF ReuseProcess, Locals
  <1>4. CASE SwapProcess
    BY <1>1, <1>4 DEF SwapProcess, Locals
  <1>5. CASE FreshProcess
    BY <1>1, <1>5 DEF FreshProcess, Locals
  <1>6. CASE RegisterDefaults
    BY <1>6 DEF RegisterDefaults
  <1>7. ASSUME NEW t \in Seconds, RegisterBuildInfo(t)
        PROVE  /\ at = "build" /\ at' \in {"wire_last", "props"}
               /\ at' = "wire_last" <=> cur.app = Server
               /\ cur'.app = cur.app /\ cur'.name = cur.name /\ cur'.path = cur.path
               /\ cur'.pre = cur.pre /\ cur'.depth = cur.depth
               /\ UNCHANGED <<installed, stack, origEmit, cpu, pending>>
    BY <1>1, <1>7 DEF RegisterBuildInfo, Locals
  <1>8. CASE SetProps
    BY <1>8 DEF SetProps
  <1> QED
    BY <1>2, <1>3, <1>4, <1>5, <1>6, <1>7, <1>8 DEF MidStep

\* What the actions between installs leave alone.
Between == (\E x \in Scrapes : StartScrape(x) \/ CollectCpu(x)) \/ ConsumeCpu

\* They run at rest, and keep what the installs made.
LEMMA BetweenFacts ==
    ASSUME Between
    PROVE  /\ AtRest
           /\ UNCHANGED <<at, cur, identity, registered, label, defaults, builds, installed, live,
                          stack, origEmit>>
  BY DEF Between, StartScrape, CollectCpu, ConsumeCpu, appVars, buildVars, procVars

\* The steps that change the handlers of an app, or none at all.
LEMMA NodeCases ==
    ASSUME [Next]_vars
    PROVE  \/ \E a \in Apps, n \in Asked : \E p \in Paths[a] : Begin(a, n, p)
           \/ MidStep
           \/ \E what \in {"route", "recorder"} : Wire(what) \/ WireLast(what)
           \/ PatchEmit
           \/ Throws
           \/ Between
           \/ \E a \in Apps : HostAdds(a) \/ ClearSentinel(a)
           \/ UNCHANGED vars
  BY Zenon DEF Next, Install, MidStep, Between, Throws, NothingToInstall

\* What is below the handlers to come does not change while an install runs.
LEMMA DepthStep ==
    ASSUME NodeTypeOK, DepthFits, [Next]_vars
    PROVE  DepthFits'
  <1> USE StripFacts
  <1>0. /\ stack \in [Apps -> Seq(Layers)] /\ origEmit \in Nat \cup {NoName}
        /\ \A a \in Apps : Len(stack[a]) \in Nat
        /\ cur.app \in Apps /\ cur.depth \in Nat
    BY SMTT(20) DEF NodeTypeOK, Locals
  <1>1. ASSUME NEW a \in Apps, NEW n \in Asked, NEW p \in Paths[a], Begin(a, n, p)
        PROVE  DepthFits'
    <2>2. cur'.app = a /\ cur'.depth = PriorDepth(a)
      BY <1>1, BeginFacts
    <2>3. /\ at' = "set_service" /\ UNCHANGED <<stack, origEmit>> /\ a \in Express \cup Hono \cup {Server}
      BY <1>1 DEF Begin, Step, appVars, buildVars
    <2>4. PriorDepth(a) <= Len(stack[a])
      BY <1>0 DEF PriorDepth, DepthFits
    <2>5. PriorDepth(Server)' = PriorDepth(Server)
      BY <2>3 DEF PriorDepth
    <2> QED
      BY <2>2, <2>3, <2>4, <2>5 DEF DepthFits
  <1>2. CASE MidStep
    <2>1. PriorDepth(Server)' = PriorDepth(Server)
      BY <1>2, MidFacts DEF PriorDepth
    <2> QED
      BY <1>2, <2>1, MidFacts DEF DepthFits
  <1>3. ASSUME NEW what \in {"route", "recorder"}, Wire(what) \/ WireLast(what) PROVE DepthFits'
    <2>1. /\ ~AtRest /\ cur.app # Server /\ UNCHANGED origEmit
          /\ AtRest' \/ (cur' = cur /\ at' = "wire_last")
          /\ stack' = [stack EXCEPT ![cur.app] = Added(what)]
      <3>1. CASE WireLast(what)
        BY <3>1 DEF WireLast, Step, AtRest
      <3>2. CASE Wire(what)
        <4>1. cur.app # Server
          BY <3>2 DEF Wire, Step, DepthFits, AtRest
        <4> QED
          BY <3>2, <4>1 DEF Wire, Step, AtRest
      <3> QED
        BY <1>3, <3>1, <3>2
    <2>2. /\ stack'[cur.app] = Added(what) /\ Len(Added(what)) >= Len(stack[cur.app])
          /\ \A a \in Apps : a # cur.app => stack'[a] = stack[a]
      BY <1>0, <2>1, AddedFacts
    <2> QED
      BY <1>0, <2>1, <2>2 DEF DepthFits
  <1>4. CASE PatchEmit
    <2>1. /\ AtRest' /\ ~AtRest /\ cur.app = Server
          /\ stack' = [stack EXCEPT ![Server] =
                         Append(SubSeq(stack[Server], 1, cur.depth), Handler("recorder"))]
          /\ origEmit' = IF origEmit = NoName THEN cur.depth ELSE origEmit
      BY <1>4 DEF PatchEmit, Step, AtRest
    <2>2. Len(stack'[Server]) = cur.depth + 1 /\ cur.depth = PriorDepth(Server)
      BY <1>0, <2>1, PatchedFacts DEF DepthFits
    <2>3. origEmit' = NoName \/ origEmit' <= cur.depth
      BY <1>0, <2>1, <2>2 DEF PriorDepth
    <2> QED
      BY <1>0, <2>1, <2>2, <2>3 DEF DepthFits
  <1>5. CASE Throws
    <2>1. ~AtRest
      BY <1>5, ThrowFacts
    <2>2. AtRest' /\ UNCHANGED origEmit /\ stack' = [stack EXCEPT ![cur.app] = Unwound(cur.app)]
      BY <1>5, ThrowFacts DEF Abandon, AtRest
    <2>3. Server \notin Express
      BY DEF Express
    <2>4. Server \in Apps => Len(stack'[Server]) = Len(stack[Server])
      BY <1>0, <2>1, <2>2, <2>3 DEF Unwound
    <2> QED
      BY <2>2, <2>4 DEF DepthFits
  <1>6. CASE Between \/ UNCHANGED vars
    <2>1. UNCHANGED <<at, cur, stack, origEmit>>
      BY <1>6, BetweenFacts DEF vars, appVars, buildVars
    <2> QED
      BY <2>1 DEF DepthFits, AtRest, PriorDepth
  <1>7. ASSUME NEW a \in Apps, HostAdds(a) \/ ClearSentinel(a) PROVE DepthFits'
    <2>1. /\ AtRest /\ UNCHANGED <<at, cur, origEmit>>
          /\ stack' = stack \/ stack' = [stack EXCEPT ![a] = Append(stack[a], HostLayer)]
      BY <1>7 DEF HostAdds, ClearSentinel
    <2>2. HostLayer \in Layers
      BY DEF HostLayer, Layers
    <2>3. Len(Append(stack[a], HostLayer)) = Len(stack[a]) + 1
      BY <1>0, <2>2, AppendProperties
    <2>4. Server \in Apps => Len(stack'[Server]) \in {Len(stack[Server]), Len(stack[Server]) + 1}
      BY <1>0, <2>1, <2>3
    <2> QED
      BY <1>0, <2>1, <2>4 DEF DepthFits, AtRest
  <1> QED
    BY <1>1, <1>2, <1>3, <1>4, <1>5, <1>6, <1>7, NodeCases

\* The step of a scrape, of the host or of an install keeps the series right.
LEMMA SeriesStep ==
    ASSUME NodeTypeOK, DepthFits, SeriesFits, [Next]_vars
    PROVE  SeriesFits'
  <1> USE StripFacts
  <1>0. /\ label \in Names \cup {NoName} /\ counter \in [Names -> 0..MaxCpu] /\ last \in 0..MaxCpu
        /\ cpu \in 0..MaxCpu /\ registered \in BOOLEAN /\ cur \in Locals
        /\ cur.name \in Names /\ MaxCpu \in Nat
    BY NodeParametersAssumption DEF NodeTypeOK, Locals
  <1>1. ASSUME NEW a \in Apps, NEW n \in Asked, NEW p \in Paths[a], Begin(a, n, p)
        PROVE  SeriesFits'
    <2>2. cur'.proc = "none"
      BY <1>1, BeginFacts
    <2> QED
      BY <1>1, <2>2 DEF Begin, Step, SeriesFits, procVars, buildVars, envVars
  <1>2. CASE SetService
    BY <1>2 DEF SetService, Step, SeriesFits, procVars, buildVars, envVars
  <1>3. CASE ReuseProcess
    <2>1. cur'.proc = "reused"
      BY <1>0, <1>3 DEF ReuseProcess, Locals
    <2> QED
      BY <1>3, <2>1 DEF ReuseProcess, Step, SeriesFits, procVars, buildVars, envVars
  <1>4. CASE SwapProcess
    <2>1. /\ cur'.proc = "service-swap" /\ cur'.prior = label
          /\ registered /\ label' = cur.name /\ counter' = WithoutSeries(label)
          /\ UNCHANGED <<registered, last, cpu, pending>> /\ at' = "defaults"
      BY <1>0, <1>4 DEF SwapProcess, Step, Locals, envVars, buildVars
    <2>2. \A n \in Names : counter'[n] = 0
      BY <1>0, <2>1, WithoutFacts DEF SeriesFits
    <2> QED
      BY <1>0, <2>1, <2>2 DEF SeriesFits
  <1>5. CASE FreshProcess
    <2>1. /\ cur'.proc = "registered" /\ ~registered /\ registered' /\ label' = cur.name
          /\ UNCHANGED <<last, counter, cpu, pending>> /\ at' = "defaults"
      BY <1>0, <1>5 DEF FreshProcess, Step, Locals, envVars, buildVars
    <2>2. \A n \in Names : counter[n] = 0
      BY <1>0, <2>1 DEF SeriesFits
    <2> QED
      BY <1>0, <2>1, <2>2 DEF SeriesFits
  <1>6. CASE RegisterDefaults \/ SetProps \/ \E what \in {"route", "recorder"} : Wire(what)
    BY <1>6 DEF RegisterDefaults, SetProps, Wire, Step, SeriesFits, procVars, buildVars, envVars
  <1>7. ASSUME NEW t \in Seconds, RegisterBuildInfo(t) PROVE SeriesFits'
    <2>1. cur'.proc = cur.proc /\ cur'.prior = cur.prior
      BY <1>0, <1>7 DEF RegisterBuildInfo, Locals
    <2> QED
      BY <1>7, <2>1 DEF RegisterBuildInfo, Step, SeriesFits, procVars, buildVars, envVars
  <1>8. CASE PatchEmit \/ \E what \in {"route", "recorder"} : WireLast(what)
    <2>1. cur'.proc = "none" /\ UNCHANGED <<procVars, envVars>>
      BY <1>8, IdleFits DEF PatchEmit, WireLast
    <2> QED
      BY <2>1 DEF SeriesFits, procVars, buildVars, envVars
  <1>9. CASE Throws /\ RestoreProcess
    <2>0. Abandon
      BY <1>9, ThrowFacts
    <2>1. /\ cur'.proc = "none" /\ UNCHANGED <<cpu, pending>>
          /\ registered' <=> registered /\ cur.proc # "registered"
          /\ label' = LabelRestored /\ counter' = CounterRestored
          /\ last' = IF cur.proc = "registered" THEN 0 ELSE last
      BY <1>9, <2>0, IdleFits DEF Abandon, RestoreProcess, envVars
    <2>2. CASE cur.proc = "registered"
      BY <1>0, <2>1, <2>2 DEF SeriesFits, LabelRestored, CounterRestored
    <2>3. CASE cur.proc = "service-swap"
      <3>1. label' = cur.prior /\ counter' = WithoutSeries(label)
        BY <2>1, <2>3 DEF LabelRestored, CounterRestored
      <3>2. \A n \in Names : counter'[n] = 0
        BY <1>0, <3>1, WithoutFacts DEF SeriesFits
      <3> QED
        BY <1>0, <2>1, <2>3, <3>1, <3>2 DEF SeriesFits
    <2>4. CASE cur.proc \notin {"registered", "service-swap"}
      <3>1. label' = label /\ counter' = counter
        BY <2>1, <2>4 DEF LabelRestored, CounterRestored
      <3> QED
        BY <1>0, <2>1, <2>4, <3>1 DEF SeriesFits
    <2> QED
      BY <2>2, <2>3, <2>4
  <1>15. CASE ThrowHalfRegistered
    <2>1. Abandon /\ ~registered /\ registered' /\ label' = cur.name /\ UNCHANGED <<last, counter>>
      BY <1>15 DEF ThrowHalfRegistered
    <2>2. cur'.proc = "none" /\ UNCHANGED <<cpu, pending>>
      BY <2>1, IdleFits DEF Abandon, envVars
    <2>3. \A n \in Names : counter[n] = 0
      BY <1>0, <2>1 DEF SeriesFits
    <2> QED
      BY <1>0, <2>1, <2>2, <2>3 DEF SeriesFits
  <1>16. CASE Throws
    <2>1. RestoreProcess \/ ThrowHalfRegistered
      BY <1>16 DEF Throws, ThrowAndRollBack, ThrowHalfBuilt
    <2> QED
      BY <1>9, <1>15, <1>16, <2>1
  <1>10. ASSUME NEW x \in Scrapes, StartScrape(x) PROVE SeriesFits'
    BY <1>10 DEF StartScrape, SeriesFits, procVars, buildVars, AtRest
  <1>11. ASSUME NEW x \in Scrapes, CollectCpu(x) PROVE SeriesFits'
    <2>1. /\ AtRest /\ UNCHANGED <<at, cur, registered, label, cpu>>
          /\ last' = cpu /\ pending' \subseteq pending /\ pending # {}
          /\ counter' = IF CpuDelta > 0 THEN [counter EXCEPT ![label] = counter[label] + CpuDelta]
                        ELSE counter
      BY <1>11 DEF CollectCpu, Remembered
    <2>2. label \in Names /\ registered
      BY <1>0, <2>1 DEF SeriesFits
    <2>3. /\ \A n \in Names : n # label => counter'[n] = counter[n] /\ counter[n] = 0
          /\ counter'[label] <= cpu
      BY <1>0, <2>1, <2>2 DEF CpuDelta, SeriesFits
    <2> QED
      BY <1>0, <2>1, <2>2, <2>3 DEF SeriesFits, AtRest
  <1>12. CASE ConsumeCpu
    BY <1>0, <1>12 DEF ConsumeCpu, SeriesFits, procVars, buildVars
  <1>13. ASSUME NEW a \in Apps, HostAdds(a) \/ ClearSentinel(a) PROVE SeriesFits'
    BY <1>13 DEF HostAdds, ClearSentinel, SeriesFits, procVars, buildVars, envVars
  <1>14. CASE UNCHANGED vars
    BY <1>14 DEF vars, SeriesFits, procVars, buildVars, envVars
  <1> QED
    BY <1>1, <1>2, <1>3, <1>4, <1>5, <1>6, <1>7, <1>8, <1>10, <1>11, <1>12, <1>13, <1>14, <1>16,
       NodeCases
    DEF MidStep, Between

\* The statements the code has reached, and what they have left behind.
IsTrimmed(n) == n = NoName \/ Strip[n] = n

FrameFits ==
    /\ \A a \in Apps : installed[a] => a \in Express \cup Hono \cup {Server}
    /\ IsTrimmed(identity)
    /\ AtRest => ~cur.wasNew
    /\ ~AtRest =>
         /\ ~installed[cur.app] /\ IsTrimmed(cur.pre)
         /\ identity = IF at = "set_service" THEN cur.pre ELSE Strip[cur.name]
         /\ at \notin {"set_service", "process"} => label = cur.name /\ cur.proc # "none"
         /\ at \in {"props", "wire", "wire_last"} => cur.key \in builds /\ cur.key[1] = cur.name
         /\ at \notin {"props", "wire", "wire_last"} => ~cur.wasNew
         /\ at \in {"wire", "wire_last"} /\ cur.app # Server =>
              live[cur.app] = [name |-> cur.name, path |-> cur.path]

\* The end of an install, either way.
LEMMA EndFacts ==
    ASSUME NodeTypeOK,
           PatchEmit \/ (\E what \in {"route", "recorder"} : WireLast(what)) \/ Throws
    PROVE  AtRest' /\ ~AtRest /\ cur' = Idle /\ ~cur'.wasNew /\ cur'.proc = "none"
  <1>1. AtRest' /\ ~AtRest /\ cur' = Idle
    <2>1. CASE Throws
      BY <2>1, ThrowFacts DEF Abandon
    <2>2. CASE PatchEmit \/ \E what \in {"route", "recorder"} : WireLast(what)
      BY <2>2 DEF PatchEmit, WireLast, Step, AtRest
    <2> QED
      BY <2>1, <2>2
  <1> QED
    BY <1>1, IdleFits

\* Each statement leaves the process as the next one expects it.
LEMMA FrameStep ==
    ASSUME NodeTypeOK, SeriesFits, DepthFits, FrameFits, [Next]_vars
    PROVE  FrameFits'
  <1> USE StripFacts
  <1>0. /\ cur \in Locals /\ cur.name \in Names /\ cur.app \in Apps /\ cur.path \in AnyPath
        /\ cur.pre \in Names \cup {NoName} /\ identity \in Names \cup {NoName}
        /\ installed \in [Apps -> BOOLEAN]
        /\ live \in [Apps -> [name : Names \cup {NoName}, path : AnyPath \cup {NoName}]]
    BY DEF NodeTypeOK, Locals
  <1>1. ASSUME NEW a \in Apps, NEW n \in Asked, NEW p \in Paths[a], Begin(a, n, p)
        PROVE  FrameFits'
    <2>1. cur'.app = a /\ cur'.pre = identity /\ cur'.wasNew = FALSE
      BY <1>1, BeginFacts
    <2>2. /\ at' = "set_service" /\ ~AtRest' /\ ~installed[a]
          /\ UNCHANGED <<identity, installed>>
      BY <1>1 DEF Begin, Step, AtRest, appVars, buildVars
    <2> QED
      BY <2>1, <2>2 DEF FrameFits, IsTrimmed
  <1>2. CASE SetService
    <2>1. /\ at = "set_service" /\ at' = "process" /\ ~AtRest /\ ~AtRest'
          /\ identity' = Strip[cur.name] /\ UNCHANGED <<cur, installed>>
      BY <1>2 DEF SetService, Step, AtRest, appVars, buildVars
    <2> QED
      BY <1>0, <2>1 DEF FrameFits, IsTrimmed
  <1>3. CASE ReuseProcess \/ SwapProcess \/ FreshProcess
    <2>1. /\ at = "process" /\ at' = "defaults" /\ ~AtRest /\ ~AtRest'
          /\ label' = cur.name /\ UNCHANGED <<identity, installed>>
      BY <1>3 DEF ReuseProcess, SwapProcess, FreshProcess, Step, AtRest, appVars, buildVars, procVars
    <2>2. /\ cur'.proc # "none" /\ cur'.app = cur.app /\ cur'.name = cur.name
          /\ cur'.pre = cur.pre /\ cur'.wasNew = cur.wasNew
      <3>1. CASE ReuseProcess
        BY <1>0, <3>1 DEF ReuseProcess, Locals
      <3>2. CASE SwapProcess
        BY <1>0, <3>2 DEF SwapProcess, Locals
      <3>3. CASE FreshProcess
        BY <1>0, <3>3 DEF FreshProcess, Locals
      <3> QED
        BY <1>3, <3>1, <3>2, <3>3
    <2> QED
      BY <2>1, <2>2 DEF FrameFits, IsTrimmed
  <1>4. CASE RegisterDefaults
    <2>1. /\ at = "defaults" /\ at' = "build" /\ ~AtRest /\ ~AtRest'
          /\ UNCHANGED <<cur, identity, label, installed>>
      BY <1>4 DEF RegisterDefaults, Step, AtRest, appVars, buildVars, procVars
    <2> QED
      BY <2>1 DEF FrameFits, IsTrimmed
  <1>5. ASSUME NEW t \in Seconds, RegisterBuildInfo(t) PROVE FrameFits'
    <2>1. /\ at = "build" /\ at' = (IF cur.app = Server THEN "wire_last" ELSE "props")
          /\ ~AtRest /\ ~AtRest' /\ UNCHANGED <<identity, label, installed>>
          /\ builds' = builds \cup {<<cur.name, t>>}
      BY <1>5 DEF RegisterBuildInfo, Step, AtRest, appVars, buildVars, procVars
    <2>2. /\ cur'.proc = cur.proc /\ cur'.app = cur.app /\ cur'.name = cur.name
          /\ cur'.pre = cur.pre /\ cur'.key = <<cur.name, t>>
      BY <1>0, <1>5 DEF RegisterBuildInfo, Locals
    <2> QED
      BY <2>1, <2>2 DEF FrameFits, IsTrimmed
  <1>6. CASE SetProps
    <2>1. /\ at = "props" /\ at' = "wire" /\ ~AtRest /\ ~AtRest'
          /\ UNCHANGED <<cur, identity, label, installed, builds>>
          /\ live' = [live EXCEPT ![cur.app] = [name |-> cur.name, path |-> cur.path]]
      BY <1>6 DEF SetProps, Step, AtRest, procVars, buildVars
    <2>2. live'[cur.app] = [name |-> cur.name, path |-> cur.path]
      BY <1>0, <2>1
    <2> QED
      BY <2>1, <2>2 DEF FrameFits, IsTrimmed
  <1>7. ASSUME NEW what \in {"route", "recorder"}, Wire(what) PROVE FrameFits'
    <2>1. /\ at = "wire" /\ at' = "wire_last" /\ ~AtRest /\ ~AtRest'
          /\ UNCHANGED <<cur, identity, label, installed, builds, live>>
      BY <1>7 DEF Wire, Step, AtRest, procVars, buildVars
    <2> QED
      BY <2>1 DEF FrameFits, IsTrimmed
  <1>8. CASE PatchEmit \/ \E what \in {"route", "recorder"} : WireLast(what)
    <2>1. AtRest' /\ ~AtRest /\ ~cur'.wasNew
      BY <1>8, EndFacts
    <2>2. UNCHANGED identity /\ installed' = [installed EXCEPT ![cur.app] = TRUE]
      BY <1>8 DEF PatchEmit, WireLast
    <2>3. cur.app \in Express \cup Hono \cup {Server}
      BY <2>1 DEF DepthFits
    <2> QED
      BY <1>0, <2>1, <2>2, <2>3 DEF FrameFits, IsTrimmed
  <1>9. CASE Throws
    <2>1. AtRest' /\ ~AtRest /\ ~cur'.wasNew
      BY <1>9, EndFacts
    <2>2. /\ identity' = (IF cur.pre = NoName THEN NoName ELSE Strip[cur.pre])
          /\ installed' = [installed EXCEPT ![cur.app] = FALSE]
      BY <1>9, ThrowFacts DEF Abandon
    <2> QED
      BY <1>0, <2>1, <2>2 DEF FrameFits, IsTrimmed
  <1>10. CASE Between
    BY <1>10, BetweenFacts DEF FrameFits, IsTrimmed, AtRest
  <1>11. ASSUME NEW a \in Apps, HostAdds(a) \/ ClearSentinel(a) PROVE FrameFits'
    <2>1. /\ AtRest /\ UNCHANGED <<at, cur, identity>>
          /\ installed' = installed \/ installed' = [installed EXCEPT ![a] = FALSE]
      BY <1>11 DEF HostAdds, ClearSentinel
    <2> QED
      BY <1>0, <2>1 DEF FrameFits, IsTrimmed, AtRest
  <1>12. CASE UNCHANGED vars
    BY <1>12 DEF vars, procVars, buildVars, appVars, FrameFits, IsTrimmed, AtRest
  <1> QED
    BY <1>1, <1>2, <1>3, <1>4, <1>5, <1>6, <1>7, <1>8, <1>9, <1>10, <1>11, <1>12, NodeCases
    DEF MidStep

\* Until a throw half-way, a label set is owned if and only if it has a sample.
OwnedFits == ~torn => owned = builds

\* The samples and their keys come and go together.
LEMMA OwnedStep ==
    ASSUME OwnedFits, [Next]_vars
    PROVE  OwnedFits'
  <1> SUFFICES ASSUME ~torn' PROVE owned' = builds'
    BY DEF OwnedFits
  <1> USE DEF OwnedFits
  <1>1. ASSUME NEW a \in Apps, NEW n \in Asked, NEW p \in Paths[a], Begin(a, n, p)
        PROVE  owned' = builds'
    BY <1>1 DEF Begin, buildVars
  <1>2. CASE MidStep
    <2>1. ASSUME NEW t \in Seconds, RegisterBuildInfo(t) PROVE owned' = builds'
      BY <2>1 DEF RegisterBuildInfo
    <2>2. CASE SetService \/ ReuseProcess \/ SwapProcess \/ FreshProcess \/ RegisterDefaults
               \/ SetProps
      BY <2>2 DEF SetService, ReuseProcess, SwapProcess, FreshProcess, RegisterDefaults, SetProps,
                  buildVars
    <2> QED
      BY <1>2, <2>1, <2>2 DEF MidStep
  <1>3. CASE PatchEmit \/ \E what \in {"route", "recorder"} : Wire(what) \/ WireLast(what)
    BY <1>3 DEF PatchEmit, Wire, WireLast, buildVars
  <1>4. CASE Throws
    BY <1>4 DEF Throws, ThrowAndRollBack, ThrowHalfRegistered, ThrowHalfBuilt, BuildsRestored
  <1>5. CASE Between \/ (\E a \in Apps : HostAdds(a) \/ ClearSentinel(a)) \/ UNCHANGED vars
    BY <1>5 DEF Between, StartScrape, CollectCpu, ConsumeCpu, HostAdds, ClearSentinel, vars,
                buildVars
  <1> QED
    BY <1>1, <1>2, <1>3, <1>4, <1>5, NodeCases

\* The handlers of each app: emit has one patch, right on the original; Hono has at
\* most one of a kind; what an install of Express has added lies on top.
StackFits ==
    /\ Server \in Apps => \A i \in DOMAIN stack[Server] :
         \/ stack[Server][i].what = "host"
         \/ /\ stack[Server][i].what = "recorder" /\ stack[Server][i].name # NoName
            /\ origEmit # NoName /\ i = origEmit + 1
    /\ \A a \in Apps \ (Express \cup Hono \cup {Server}) :
         \A i \in DOMAIN stack[a] : stack[a][i].what = "host"
    /\ \A a \in Hono : \A i, j \in DOMAIN stack[a] :
         stack[a][i].what = stack[a][j].what /\ stack[a][i].what # "host" => i = j
    /\ at = "wire_last" /\ cur.app \in Hono =>
         \E i \in DOMAIN stack[cur.app] : stack[cur.app][i].what = "recorder"
    /\ ~AtRest /\ cur.app \in Express =>
         /\ at # "wire_last" => Len(stack[cur.app]) = cur.depth
         /\ \A i \in DOMAIN stack[cur.app] : i > cur.depth => stack[cur.app][i].what # "host"

\* Wiring a handler.
LEMMA WireFacts ==
    ASSUME NodeTypeOK, DepthFits, NEW what \in {"route", "recorder"}, Wire(what) \/ WireLast(what)
    PROVE  /\ ~AtRest /\ cur.app \in (Express \cup Hono) /\ cur.app # Server
           /\ UNCHANGED <<origEmit, live>>
           /\ stack'[cur.app] = Added(what)
           /\ \A a \in Apps : a # cur.app => stack'[a] = stack[a]
           /\ Wire(what) => /\ at = "wire" /\ at' = "wire_last" /\ ~AtRest' /\ cur' = cur
                            /\ installed' = installed /\ WiredFirst(cur.app, what)
           /\ WireLast(what) => /\ at = "wire_last" /\ AtRest' /\ ~WiredFirst(cur.app, what)
                                /\ installed' = [installed EXCEPT ![cur.app] = TRUE]
  <1>1. ~AtRest /\ stack' = [stack EXCEPT ![cur.app] = Added(what)] /\ UNCHANGED <<origEmit, live>>
    BY DEF Wire, WireLast, Step, AtRest
  <1>2. cur.app # Server
    <2>1. CASE Wire(what)
      BY <1>1, <2>1 DEF Wire, Step, DepthFits
    <2>2. CASE WireLast(what)
      BY <2>2 DEF WireLast
    <2> QED
      BY <2>1, <2>2
  <1>3. cur.app \in (Express \cup Hono)
    BY <1>1, <1>2 DEF DepthFits
  <1>4. cur.app \in Apps /\ stack \in [Apps -> Seq(Layers)]
    BY DEF NodeTypeOK, Locals
  <1>5. stack'[cur.app] = Added(what) /\ \A a \in Apps : a # cur.app => stack'[a] = stack[a]
    BY <1>1, <1>4
  <1>6. Wire(what) => /\ at = "wire" /\ at' = "wire_last" /\ ~AtRest' /\ cur' = cur
                      /\ installed' = installed /\ WiredFirst(cur.app, what)
    BY DEF Wire, Step, AtRest
  <1>7. WireLast(what) => /\ at = "wire_last" /\ AtRest' /\ ~WiredFirst(cur.app, what)
                          /\ installed' = [installed EXCEPT ![cur.app] = TRUE]
    BY DEF WireLast, Step, AtRest
  <1> QED
    BY <1>1, <1>2, <1>3, <1>5, <1>6, <1>7

\* A handler of the host lies on top of the others.
LEMMA HostFacts ==
    ASSUME NodeTypeOK, NEW a \in Apps, HostAdds(a)
    PROVE  /\ AtRest /\ UNCHANGED <<at, cur, installed, live, origEmit>>
           /\ Len(stack'[a]) = Len(stack[a]) + 1
           /\ \A i \in DOMAIN stack[a] : stack'[a][i] = stack[a][i]
           /\ \A i \in DOMAIN stack'[a] :
                i \in DOMAIN stack[a]
                \/ (i = Len(stack[a]) + 1 /\ stack'[a][i].what = "host")
           /\ \A b \in Apps : b # a => stack'[b] = stack[b]
  <1>1. /\ AtRest /\ UNCHANGED <<at, cur, installed, live, origEmit>>
        /\ stack' = [stack EXCEPT ![a] = Append(stack[a], HostLayer)]
    BY DEF HostAdds
  <1>2. stack \in [Apps -> Seq(Layers)] /\ stack[a] \in Seq(Layers) /\ HostLayer \in Layers
    BY DEF NodeTypeOK, HostLayer, Layers
  <1>3. /\ Append(stack[a], HostLayer) \in Seq(Layers)
        /\ Len(Append(stack[a], HostLayer)) = Len(stack[a]) + 1
        /\ \A i \in 1..Len(stack[a]) : Append(stack[a], HostLayer)[i] = stack[a][i]
        /\ Append(stack[a], HostLayer)[Len(stack[a]) + 1] = HostLayer
    BY <1>2, AppendProperties
  <1>4. stack'[a] = Append(stack[a], HostLayer) /\ \A b \in Apps : b # a => stack'[b] = stack[b]
    BY <1>1, <1>2
  <1>5. HostLayer.what = "host"
    BY DEF HostLayer
  <1>6. DOMAIN stack'[a] = 1..Len(stack'[a]) /\ DOMAIN stack[a] = 1..Len(stack[a])
        /\ Len(stack[a]) \in Nat
    BY <1>2, <1>3, <1>4
  <1> QED
    BY <1>1, <1>3, <1>4, <1>5, <1>6

\* Every statement, the rollback and the host keep the handlers in that order.
LEMMA StackStep ==
    ASSUME NodeTypeOK, DepthFits, StackFits, [Next]_vars
    PROVE  StackFits'
  <1> USE StripFacts
  <1>0. /\ stack \in [Apps -> Seq(Layers)] /\ origEmit \in Nat \cup {NoName}
        /\ \A a \in Apps : Len(stack[a]) \in Nat /\ DOMAIN stack[a] = 1..Len(stack[a])
        /\ cur.app \in Apps /\ cur.depth \in Nat /\ cur.name \in Names /\ cur.path \in AnyPath
        /\ Express \subseteq Apps /\ Hono \subseteq Apps /\ Server \notin Express \cup Hono
        /\ Express \cap Hono = {}
    <2>1. stack \in [Apps -> Seq(Layers)] /\ origEmit \in Nat \cup {NoName} /\ cur \in Locals
      BY DEF NodeTypeOK
    <2>2. \A a \in Apps : Len(stack[a]) \in Nat /\ DOMAIN stack[a] = 1..Len(stack[a])
      BY <2>1
    <2>3. cur.app \in Apps /\ cur.depth \in Nat /\ cur.name \in Names /\ cur.path \in AnyPath
      BY <2>1 DEF Locals
    <2>4. /\ Express \subseteq Apps /\ Hono \subseteq Apps /\ Server \notin Express \cup Hono
          /\ Express \cap Hono = {}
      BY DEF Express, Hono
    <2> QED
      BY <2>1, <2>2, <2>3, <2>4
  <1>1. ASSUME NEW a \in Apps, NEW n \in Asked, NEW p \in Paths[a], Begin(a, n, p)
        PROVE  StackFits'
    <2>1. cur'.app = a /\ cur'.depth = PriorDepth(a)
      BY <1>1, BeginFacts
    <2>2. at' = "set_service" /\ UNCHANGED <<stack, origEmit>>
      BY <1>1 DEF Begin, Step, appVars, buildVars
    <2>3. a \in Express => cur'.depth = Len(stack[a])
      BY <1>0, <2>1 DEF PriorDepth
    <2> QED
      BY <1>0, <2>1, <2>2, <2>3 DEF StackFits
  <1>2. CASE MidStep
    <2>1. /\ ~AtRest /\ at # "wire_last" /\ (at' = "wire_last" => cur.app = Server)
          /\ cur'.app = cur.app /\ cur'.depth = cur.depth /\ UNCHANGED <<stack, origEmit>>
      BY <1>2, MidFacts
    <2> QED
      BY <1>0, <2>1 DEF StackFits
  <1>3. ASSUME NEW what \in {"route", "recorder"}, Wire(what) \/ WireLast(what) PROVE StackFits'
    <2>1. PICK app : app = cur.app
      OBVIOUS
    <2>2. PICK n : n = Len(stack[app])
      OBVIOUS
    <2>3. PICK h : h = Handler(what)
      OBVIOUS
    <2>4. /\ ~AtRest /\ app \in Apps /\ app \in (Express \cup Hono) /\ app # Server
          /\ UNCHANGED origEmit /\ \A a \in Apps : a # app => stack'[a] = stack[a]
          /\ (AtRest' /\ at' # "wire_last") \/ (at' = "wire_last" /\ cur' = cur /\ at = "wire"
                                                /\ Wire(what))
      BY <1>0, <1>3, <2>1, WireFacts DEF AtRest
    <2>5. /\ stack'[app] \in Seq(Layers) /\ h.what = what /\ n \in Nat
          /\ Len(stack'[app]) \in {n, n + 1}
          /\ \A i \in 1..n : stack'[app][i] = stack[app][i]
          /\ \A i \in DOMAIN stack'[app] :
               i \in 1..n
               \/ (i = n + 1 /\ stack'[app][i] = h
                   /\ ~(app \in Hono /\ Wired(app, what) # {}))
      BY SMTT(20), <1>0, <1>3, <2>1, <2>2, <2>3, WireFacts, AddedFacts
    <2>6. DOMAIN stack'[app] = 1..Len(stack'[app]) /\ DOMAIN stack[app] = 1..n
      BY <1>0, <2>2, <2>4, <2>5
    <2>7. ASSUME app \in Hono, NEW i \in DOMAIN stack'[app], NEW j \in DOMAIN stack'[app],
                 stack'[app][i].what = stack'[app][j].what, stack'[app][i].what # "host"
          PROVE  i = j
      <3>1. CASE i \in 1..n /\ j \in 1..n
        BY SMTT(20), <2>5, <2>6, <2>7, <3>1 DEF StackFits
      <3>2. CASE i = n + 1 /\ j = n + 1
        BY <3>2
      <3>3. ASSUME NEW k \in 1..n, stack'[app][k].what = what, Wired(app, what) = {} PROVE FALSE
        BY <2>5, <2>6, <3>3 DEF Wired
      <3>4. CASE i = n + 1 /\ j \in 1..n
        <4>1. stack'[app][i] = h /\ Wired(app, what) = {}
          BY <2>5, <2>7, <3>4
        <4> QED
          BY <2>5, <2>7, <3>3, <3>4, <4>1
      <3>5. CASE i \in 1..n /\ j = n + 1
        <4>1. stack'[app][j] = h /\ Wired(app, what) = {}
          BY <2>5, <2>7, <3>5
        <4> QED
          BY <2>5, <2>7, <3>3, <3>5, <4>1
      <3> QED
        BY <2>5, <3>1, <3>2, <3>4, <3>5
    <2>8. at' = "wire_last" /\ app \in Hono =>
            \E i \in DOMAIN stack'[app] : stack'[app][i].what = "recorder"
      <3> SUFFICES ASSUME at' = "wire_last", app \in Hono
                   PROVE  \E i \in DOMAIN stack'[app] : stack'[app][i].what = "recorder"
        OBVIOUS
      <3>1. what = "recorder"
        BY <2>1, <2>4, WireFacts DEF WiredFirst
      <3>2. CASE Wired(app, what) # {}
        <4>1. PICK k \in 1..n : stack[app][k].what = "recorder"
          BY <2>6, <3>1, <3>2 DEF Wired
        <4>2. k \in DOMAIN stack'[app] /\ stack'[app][k].what = "recorder"
          BY <2>5, <2>6, <4>1
        <4> QED
          BY <4>2
      <3>3. CASE Wired(app, what) = {}
        <4>1. stack'[app] = Append(stack[app], h)
          BY <1>3, <2>1, <2>3, <3>3, WireFacts DEF Added
        <4>2. stack[app] \in Seq(Layers) /\ h \in Layers
          BY <1>0, <2>3, <2>4, AddedFacts
        <4>3. n + 1 \in DOMAIN stack'[app] /\ stack'[app][n + 1] = h
          BY <2>2, <2>5, <2>6, <4>1, <4>2, AppendProperties
        <4> QED
          BY <2>5, <3>1, <4>3
      <3> QED
        BY <3>2, <3>3
    <2>9. app \in Express => \A i \in DOMAIN stack'[app] : i > cur.depth => stack'[app][i].what # "host"
      BY <1>0, <2>1, <2>4, <2>5, <2>6 DEF StackFits
    <2>10. AtRest' \/ (at' = "wire_last" /\ cur'.app = app /\ cur'.depth = cur.depth)
      BY <2>1, <2>4
    <2>11. \A a \in Hono : \A i, j \in DOMAIN stack'[a] :
             stack'[a][i].what = stack'[a][j].what /\ stack'[a][i].what # "host" => i = j
      <3> SUFFICES ASSUME NEW a \in Hono, NEW i \in DOMAIN stack'[a], NEW j \in DOMAIN stack'[a],
                          stack'[a][i].what = stack'[a][j].what, stack'[a][i].what # "host"
                   PROVE  i = j
        OBVIOUS
      <3>1. CASE a = app
        BY <2>7, <3>1
      <3>2. CASE a # app
        BY <1>0, <2>4, <3>2 DEF StackFits
      <3> QED
        BY <3>1, <3>2
    <2>12. /\ Server \in Apps => stack'[Server] = stack[Server]
           /\ \A a \in Apps \ (Express \cup Hono \cup {Server}) : stack'[a] = stack[a]
      BY <2>4
    <2>13. /\ at' = "wire_last" /\ cur'.app \in Hono =>
                \E i \in DOMAIN stack'[cur'.app] : stack'[cur'.app][i].what = "recorder"
           /\ ~AtRest' /\ cur'.app \in Express =>
                /\ at' = "wire_last"
                /\ \A i \in DOMAIN stack'[cur'.app] :
                     i > cur'.depth => stack'[cur'.app][i].what # "host"
      <3>1. CASE AtRest'
        BY <2>4, <3>1 DEF AtRest
      <3>2. CASE ~AtRest'
        BY <2>8, <2>9, <2>10, <3>2
      <3> QED
        BY <3>1, <3>2
    <2> QED
      BY <1>0, <2>4, <2>11, <2>12, <2>13 DEF StackFits
  <1>4. CASE PatchEmit
    <2>1. PICK s : s = Append(SubSeq(stack[Server], 1, cur.depth), Handler("recorder"))
      OBVIOUS
    <2>2. /\ AtRest' /\ ~AtRest /\ cur.app = Server /\ at' # "wire_last"
          /\ stack' = [stack EXCEPT ![Server] = s]
          /\ origEmit' = IF origEmit = NoName THEN cur.depth ELSE origEmit
      BY <1>4, <2>1 DEF PatchEmit, Step, AtRest
    <2>3. /\ s \in Seq(Layers) /\ Len(s) = cur.depth + 1
          /\ \A i \in 1..cur.depth : s[i] = stack[Server][i]
          /\ s[cur.depth + 1] = Handler("recorder")
      BY <2>1, <2>2, PatchedFacts
    <2>4. cur.depth = PriorDepth(Server) /\ cur.depth <= Len(stack[Server])
      BY <2>2 DEF DepthFits
    <2>5. origEmit' = cur.depth /\ origEmit' # NoName
      BY <1>0, <2>2, <2>4 DEF PriorDepth
    <2>6. Handler("recorder").what = "recorder" /\ Handler("recorder").name # NoName
      BY <1>0, <2>2 DEF Handler
    <2>7. stack'[Server] = s /\ \A a \in Apps : a # Server => stack'[a] = stack[a]
      BY <1>0, <2>2
    <2>8. ASSUME NEW i \in DOMAIN s
          PROVE  \/ s[i].what = "host"
                 \/ s[i].what = "recorder" /\ s[i].name # NoName /\ i = origEmit' + 1
      <3>1. i \in 1..cur.depth \/ i = cur.depth + 1
        BY <1>0, <2>3
      <3>2. CASE i \in 1..cur.depth
        <4>1. i \in DOMAIN stack[Server] /\ s[i] = stack[Server][i]
          BY <1>0, <2>2, <2>3, <2>4, <3>2
        <4>2. ~(origEmit # NoName /\ i = origEmit + 1)
          BY <1>0, <2>2, <2>5, <3>2
        <4> QED
          BY <1>0, <2>2, <4>1, <4>2 DEF StackFits
      <3>3. CASE i = cur.depth + 1
        BY <2>3, <2>5, <2>6, <3>3
      <3> QED
        BY <3>1, <3>2, <3>3
    <2> QED
      BY <1>0, <2>2, <2>5, <2>7, <2>8 DEF StackFits
  <1>5. CASE Throws
    <2>1. ~AtRest
      BY <1>5, ThrowFacts
    <2>2. PICK s : s = Unwound(cur.app)
      OBVIOUS
    <2>3. AtRest' /\ at' # "wire_last" /\ UNCHANGED origEmit /\ stack' = [stack EXCEPT ![cur.app] = s]
      BY <1>5, <2>2, ThrowFacts DEF Abandon, AtRest
    <2>4. /\ stack'[cur.app] = s /\ s \in Seq(Layers)
          /\ \A a \in Apps : a # cur.app => stack'[a] = stack[a]
      BY <1>0, <2>1, <2>2, <2>3, UnwoundFacts
    <2>5. cur.app \notin Express => s = stack[cur.app]
      BY <2>2 DEF Unwound
    <2>6. \A a \in Apps \ Express : stack'[a] = stack[a]
      BY <2>4, <2>5
    <2> QED
      BY <1>0, <2>3, <2>6 DEF StackFits
  <1>6. CASE Between \/ UNCHANGED vars
    <2>1. UNCHANGED <<at, cur, stack, origEmit>>
      BY <1>6, BetweenFacts DEF vars, appVars, buildVars
    <2> QED
      BY <2>1 DEF StackFits, AtRest
  <1>7. ASSUME NEW a \in Apps, HostAdds(a) PROVE StackFits'
    <2>1. /\ AtRest /\ UNCHANGED <<at, cur, origEmit>>
          /\ \A i \in DOMAIN stack[a] : stack'[a][i] = stack[a][i]
          /\ \A i \in DOMAIN stack'[a] : i \in DOMAIN stack[a] \/ stack'[a][i].what = "host"
          /\ \A b \in Apps : b # a => stack'[b] = stack[b]
      BY <1>7, HostFacts
    <2>2. \A b \in Apps : \A i \in DOMAIN stack'[b] :
            stack'[b][i].what = "host" \/ (i \in DOMAIN stack[b] /\ stack'[b][i] = stack[b][i])
      BY <2>1
    <2> QED
      BY <1>0, <2>1, <2>2 DEF StackFits, AtRest
  <1>8. ASSUME NEW a \in Apps, ClearSentinel(a) PROVE StackFits'
    BY <1>8 DEF ClearSentinel, StackFits, AtRest
  <1> QED
    BY <1>1, <1>2, <1>3, <1>4, <1>5, <1>6, <1>7, <1>8, NodeCases

\* One recorder, which records under a service and skips the one metrics route.
OneEach(a) ==
    \E r, k \in DOMAIN stack[a] :
        /\ stack[a][r].what = "recorder" /\ stack[a][k].what = "route"
        /\ \A i \in DOMAIN stack[a] \ {r, k} : stack[a][i].what = "host"
        /\ ExemptPath(a, r) = stack[a][k].path
        /\ RecordedAs(a, r) # NoName

\* An app is wired in full or, between installs, not at all.
WiringFits ==
    /\ \A a \in Express \cup Hono : installed[a] => OneEach(a)
    /\ \A a \in Hono : ~installed[a] => \A i \in DOMAIN stack[a] : stack[a][i].what # "route"
    /\ \A a \in Express : ~installed[a] => \A i \in DOMAIN stack[a] :
         \/ stack[a][i].what = "host"
         \/ /\ at = "wire_last" /\ cur.app = a /\ i = cur.depth + 1
            /\ stack[a][i].what = "route" /\ stack[a][i].path = cur.path
    /\ at = "wire_last" /\ cur.app \in Express =>
         Len(stack[cur.app]) = cur.depth + 1 /\ stack[cur.app][cur.depth + 1].what = "route"

\* A wired app stays so when the host adds a handler.
LEMMA OneEachKept ==
    ASSUME NEW a \in Express \cup Hono, OneEach(a), live'[a] = live[a],
           DOMAIN stack[a] \subseteq DOMAIN stack'[a],
           \A i \in DOMAIN stack[a] : stack'[a][i] = stack[a][i],
           \A i \in DOMAIN stack'[a] : i \in DOMAIN stack[a] \/ stack'[a][i].what = "host"
    PROVE  OneEach(a)'
  <1>1. PICK r \in DOMAIN stack[a], k \in DOMAIN stack[a] :
          /\ stack[a][r].what = "recorder" /\ stack[a][k].what = "route"
          /\ \A i \in DOMAIN stack[a] \ {r, k} : stack[a][i].what = "host"
          /\ ExemptPath(a, r) = stack[a][k].path
          /\ RecordedAs(a, r) # NoName
    BY DEF OneEach
  <1>2. /\ r \in DOMAIN stack'[a] /\ k \in DOMAIN stack'[a]
        /\ stack'[a][r] = stack[a][r] /\ stack'[a][k] = stack[a][k]
    OBVIOUS
  <1>3. \A i \in DOMAIN stack'[a] \ {r, k} : stack'[a][i].what = "host"
    BY <1>1
  <1>4. ExemptPath(a, r)' = stack'[a][k].path /\ RecordedAs(a, r)' # NoName
    BY <1>1, <1>2 DEF ExemptPath, RecordedAs
  <1> QED
    BY <1>1, <1>2, <1>3, <1>4 DEF OneEach

\* Only the prototype's sentinel is cleared: the others are wired once.
LEMMA WiringStep ==
    ASSUME Cleared \subseteq {Server},
           NodeTypeOK, DepthFits, FrameFits, StackFits, WiringFits, [Next]_vars
    PROVE  WiringFits'
  <1> USE StripFacts
  <1>0. /\ stack \in [Apps -> Seq(Layers)] /\ installed \in [Apps -> BOOLEAN]
        /\ live \in [Apps -> [name : Names \cup {NoName}, path : AnyPath \cup {NoName}]]
        /\ \A a \in Apps : Len(stack[a]) \in Nat /\ DOMAIN stack[a] = 1..Len(stack[a])
        /\ cur.app \in Apps /\ cur.depth \in Nat /\ cur.name \in Names /\ cur.path \in AnyPath
        /\ Express \subseteq Apps /\ Hono \subseteq Apps /\ Server \notin Express \cup Hono
        /\ Express \cap Hono = {}
    <2>1. /\ stack \in [Apps -> Seq(Layers)] /\ installed \in [Apps -> BOOLEAN]
          /\ live \in [Apps -> [name : Names \cup {NoName}, path : AnyPath \cup {NoName}]]
          /\ cur \in Locals
      BY DEF NodeTypeOK
    <2>2. \A a \in Apps : Len(stack[a]) \in Nat /\ DOMAIN stack[a] = 1..Len(stack[a])
      BY <2>1
    <2>3. cur.app \in Apps /\ cur.depth \in Nat /\ cur.name \in Names /\ cur.path \in AnyPath
      BY <2>1 DEF Locals
    <2>4. /\ Express \subseteq Apps /\ Hono \subseteq Apps /\ Server \notin Express \cup Hono
          /\ Express \cap Hono = {}
      BY DEF Express, Hono
    <2> QED
      BY <2>1, <2>2, <2>3, <2>4
  <1>h. \A a \in Hono : ~installed[a] => \A i \in DOMAIN stack[a] : stack[a][i].what # "route"
    BY DEF WiringFits
  <1>e. \A a \in Express : ~installed[a] => \A i \in DOMAIN stack[a] :
          stack[a][i].what = "host" \/ (at = "wire_last" /\ cur.app = a /\ i = cur.depth + 1)
    BY DEF WiringFits
  <1>a. ASSUME NEW a \in Express \cup Hono, installed[a], stack'[a] = stack[a], live'[a] = live[a]
        PROVE  OneEach(a)'
    BY <1>a, OneEachKept DEF WiringFits
  <1>1. ASSUME NEW a \in Apps, NEW n \in Asked, NEW p \in Paths[a], Begin(a, n, p)
        PROVE  WiringFits'
    <2>1. /\ at = "idle" /\ at' = "set_service" /\ UNCHANGED <<stack, installed, live>>
      BY <1>1 DEF Begin, Step, appVars, buildVars
    <2> QED
      BY <1>0, <1>a, <2>1 DEF WiringFits
  <1>2. CASE MidStep
    <2>1. /\ at # "wire_last" /\ (at' = "wire_last" => cur'.app = Server)
          /\ ~AtRest /\ UNCHANGED <<stack, installed>>
      BY <1>2, MidFacts
    <2>2. \A a \in Apps : a # cur.app => live'[a] = live[a]
      BY <1>0, <1>2 DEF MidStep, SetService, ReuseProcess, SwapProcess, FreshProcess,
                        RegisterDefaults, RegisterBuildInfo, SetProps, appVars, buildVars
    <2>3. ~installed[cur.app]
      BY <2>1 DEF FrameFits
    <2>4. \A a \in Express \cup Hono : installed'[a] => OneEach(a)'
      BY <1>0, <1>a, <2>1, <2>2, <2>3
    <2> QED
      BY <1>0, <2>1, <2>4 DEF WiringFits
  <1>3. ASSUME NEW what \in {"route", "recorder"}, Wire(what) \/ WireLast(what) PROVE WiringFits'
    <2>1. PICK app : app = cur.app
      OBVIOUS
    <2>2. PICK n : n = Len(stack[app])
      OBVIOUS
    <2>3. PICK h : h = Handler(what)
      OBVIOUS
    <2>4. /\ ~AtRest /\ app \in Apps /\ app \in (Express \cup Hono) /\ app # Server
          /\ UNCHANGED live /\ stack'[app] = Added(what)
          /\ \A a \in Apps : a # app => stack'[a] = stack[a]
          /\ Wire(what) => /\ at = "wire" /\ at' = "wire_last" /\ cur' = cur
                           /\ installed' = installed /\ WiredFirst(app, what)
          /\ WireLast(what) => /\ at = "wire_last" /\ AtRest' /\ ~WiredFirst(app, what)
                               /\ installed' = [installed EXCEPT ![app] = TRUE]
      BY <1>0, <1>3, <2>1, WireFacts
    <2>5. ~installed[app]
      BY <2>1, <2>4 DEF FrameFits
    <2>6. n \in Nat /\ DOMAIN stack[app] = 1..n /\ stack[app] \in Seq(Layers) /\ h \in Layers
      BY <1>0, <2>2, <2>3, <2>4, AddedFacts
    <2>7. ASSUME stack'[app] = Append(stack[app], h)
          PROVE  /\ Len(stack'[app]) = n + 1 /\ DOMAIN stack'[app] = 1..(n + 1)
                 /\ \A i \in 1..n : stack'[app][i] = stack[app][i]
                 /\ stack'[app][n + 1] = h
      <3>1. /\ stack'[app] \in Seq(Layers) /\ Len(stack'[app]) = n + 1
            /\ \A i \in 1..n : stack'[app][i] = stack[app][i]
            /\ stack'[app][n + 1] = h
        BY <2>2, <2>6, <2>7, AppendProperties
      <3> QED
        BY <2>6, <3>1
    <2>8. h.what = what /\ (what = "route" => h.path = cur.path)
      BY <2>3 DEF Handler
    <2>9. app \in Express => h.path = cur.path /\ (what = "recorder" => h.name = cur.name)
      BY <1>0, <2>1, <2>3 DEF Handler
    <2>10. \A a \in Express \cup Hono : a # app /\ installed'[a] => OneEach(a)'
      <3>1. \A a \in Apps : a # app => installed'[a] = installed[a]
        BY <1>0, <1>3, <2>4
      <3> QED
        BY <1>0, <1>a, <2>4, <3>1
    <2>11. ASSUME app \in Express, Wire(what) PROVE WiringFits'
      <3>1. what = "route"
        BY <1>0, <2>4, <2>11 DEF WiredFirst
      <3>2. stack'[app] = Append(stack[app], h) /\ n = cur.depth
        BY <1>0, <2>1, <2>2, <2>3, <2>4, <2>11 DEF Added, StackFits
      <3>3. \A i \in DOMAIN stack'[app] :
              \/ stack'[app][i].what = "host"
              \/ /\ i = cur.depth + 1
                 /\ stack'[app][i].what = "route" /\ stack'[app][i].path = cur.path
        <4>1. \A i \in 1..n : stack[app][i].what = "host"
          BY <1>e, <2>4, <2>5, <2>6, <2>11
        <4>2. stack'[app][n + 1].what = "route" /\ stack'[app][n + 1].path = cur.path
          BY <2>7, <2>8, <3>1, <3>2
        <4>3. \A i \in DOMAIN stack'[app] : i \in 1..n \/ i = cur.depth + 1
          BY <2>6, <2>7, <3>2
        <4> QED
          BY <2>7, <3>2, <4>1, <4>2, <4>3
      <3>4. Len(stack'[app]) = cur.depth + 1 /\ stack'[app][cur.depth + 1].what = "route"
        BY <2>7, <2>8, <3>1, <3>2
      <3>5. \A a \in Express \cup Hono : installed'[a] => OneEach(a)'
        BY <2>4, <2>5, <2>10, <2>11
      <3>6. \A a \in Apps : a # app => stack'[a] = stack[a] /\ installed'[a] = installed[a]
        BY <2>4, <2>11
      <3>7. \A a \in Express : a # app /\ ~installed'[a] =>
              \A i \in DOMAIN stack'[a] : stack'[a][i].what = "host"
        BY <1>0, <1>e, <2>1, <3>6
      <3>8. cur' = cur /\ at' = "wire_last"
        BY <2>4, <2>11
      <3>9. \A a \in Hono : ~installed'[a] =>
              \A i \in DOMAIN stack'[a] : stack'[a][i].what # "route"
        <4> SUFFICES ASSUME NEW a \in Hono, ~installed'[a], NEW i \in DOMAIN stack'[a]
                     PROVE  stack'[a][i].what # "route"
          OBVIOUS
        <4>1. a \in Apps /\ a # app
          BY <1>0, <2>11
        <4> QED
          BY <1>h, <3>6, <4>1
      <3>10. \A a \in Express : ~installed'[a] => \A i \in DOMAIN stack'[a] :
               \/ stack'[a][i].what = "host"
               \/ /\ at' = "wire_last" /\ cur'.app = a /\ i = cur'.depth + 1
                  /\ stack'[a][i].what = "route" /\ stack'[a][i].path = cur'.path
        BY <2>1, <3>3, <3>7, <3>8
      <3>11. Len(stack'[cur'.app]) = cur'.depth + 1 /\ stack'[cur'.app][cur'.depth + 1].what = "route"
        BY <2>1, <3>4, <3>8
      <3> QED
        BY <3>5, <3>9, <3>10, <3>11 DEF WiringFits
    <2>12. ASSUME app \in Express, WireLast(what) PROVE WiringFits'
      <3>1. what = "recorder"
        BY <1>0, <2>4, <2>12 DEF WiredFirst
      <3>2. /\ stack'[app] = Append(stack[app], h) /\ n = cur.depth + 1
            /\ stack[app][n].what = "route" /\ n \in DOMAIN stack[app]
        BY <1>0, <2>1, <2>2, <2>3, <2>4, <2>6, <2>12 DEF Added, WiringFits
      <3>3. \A i \in 1..n : i # n => stack[app][i].what = "host"
        BY <2>5, <2>6, <2>12, <3>2 DEF WiringFits
      <3>4. stack[app][n].path = cur.path
        BY <2>5, <2>6, <2>12, <3>2 DEF WiringFits
      <3>5. OneEach(app)'
        <4>1. n + 1 \in DOMAIN stack'[app] /\ n \in DOMAIN stack'[app]
          BY <2>6, <2>7, <3>2
        <4>2. stack'[app][n + 1] = h /\ stack'[app][n] = stack[app][n]
          BY <2>6, <2>7, <3>2
        <4>3. \A i \in DOMAIN stack'[app] \ {n + 1, n} : stack'[app][i].what = "host"
          BY <2>6, <2>7, <3>2, <3>3
        <4>4. ExemptPath(app, n + 1)' = stack'[app][n].path /\ RecordedAs(app, n + 1)' # NoName
          BY <1>0, <2>9, <2>12, <3>1, <3>4, <4>2 DEF ExemptPath, RecordedAs
        <4> QED
          BY <2>8, <3>1, <3>2, <4>1, <4>2, <4>3, <4>4 DEF OneEach
      <3>6. \A a \in Apps : a # app => stack'[a] = stack[a] /\ installed'[a] = installed[a]
        BY <1>0, <2>4, <2>12
      <3>7. installed'[app] /\ at' # "wire_last"
        BY <1>0, <2>4, <2>12 DEF AtRest
      <3>8. \A a \in Express \cup Hono : installed'[a] => OneEach(a)'
        BY <2>10, <3>5
      <3>9. \A a \in Express : ~installed'[a] =>
              \A i \in DOMAIN stack'[a] : stack'[a][i].what = "host"
        BY <1>0, <2>1, <3>6, <3>7 DEF WiringFits
      <3>10. \A a \in Hono : ~installed'[a] =>
              \A i \in DOMAIN stack'[a] : stack'[a][i].what # "route"
        <4> SUFFICES ASSUME NEW a \in Hono, ~installed'[a], NEW i \in DOMAIN stack'[a]
                     PROVE  stack'[a][i].what # "route"
          OBVIOUS
        <4>1. a \in Apps /\ a # app
          BY <1>0, <2>12
        <4> QED
          BY <1>h, <3>6, <4>1
      <3> QED
        BY <3>7, <3>8, <3>9, <3>10 DEF WiringFits
    <2>13. ASSUME app \in Hono, Wire(what) PROVE WiringFits'
      <3>1. what = "recorder"
        BY <2>4, <2>13 DEF WiredFirst
      <3>2. \A i \in DOMAIN stack'[app] : stack'[app][i].what # "route"
        <4>1. \A i \in DOMAIN stack[app] : stack[app][i].what # "route"
          BY <2>5, <2>13 DEF WiringFits
        <4>2. stack'[app] = stack[app] \/ stack'[app] = Append(stack[app], h)
          BY <2>1, <2>3, <2>4 DEF Added
        <4>3. CASE stack'[app] = Append(stack[app], h)
          BY <2>6, <2>7, <2>8, <3>1, <4>1, <4>3
        <4> QED
          BY <4>1, <4>2, <4>3
      <3>3. \A a \in Apps : a # app => stack'[a] = stack[a]
        BY <2>4
      <3>4. UNCHANGED <<installed, cur>> /\ at # "wire_last"
        BY <2>4, <2>13
      <3>5. \A a \in Express \cup Hono : installed'[a] => OneEach(a)'
        BY <2>5, <2>10, <3>4
      <3>6. \A a \in Express : ~installed'[a] =>
              \A i \in DOMAIN stack'[a] : stack'[a][i].what = "host"
        BY <1>0, <2>13, <3>3, <3>4 DEF WiringFits
      <3>7. \A a \in Hono : ~installed'[a] =>
              \A i \in DOMAIN stack'[a] : stack'[a][i].what # "route"
        BY <1>0, <3>2, <3>3, <3>4 DEF WiringFits
      <3>8. cur'.app \notin Express
        BY <1>0, <2>1, <2>13, <3>4
      <3> QED
        BY <3>5, <3>6, <3>7, <3>8 DEF WiringFits
    <2>14. ASSUME app \in Hono, WireLast(what) PROVE WiringFits'
      <3>1. what = "route"
        BY <2>4, <2>14 DEF WiredFirst
      <3>2. at = "wire_last"
        BY <2>4, <2>14
      <3>3. PICK r \in DOMAIN stack[app] : stack[app][r].what = "recorder"
        BY <2>1, <2>14, <3>2 DEF StackFits
      <3>4. \A i \in DOMAIN stack[app] : stack[app][i].what # "route"
        BY <2>5, <2>14 DEF WiringFits
      <3>5. stack'[app] = Append(stack[app], h)
        <4>1. Wired(app, what) = {}
          BY <3>1, <3>4 DEF Wired
        <4> QED
          BY <2>1, <2>3, <2>4, <4>1 DEF Added
      <3>6. \A i \in DOMAIN stack[app] : i # r => stack[app][i].what = "host"
        <4>1. \A i \in DOMAIN stack[app] : stack[app][i].what \in {"host", "route", "recorder"}
          <5> SUFFICES ASSUME NEW i \in DOMAIN stack[app]
                       PROVE  stack[app][i].what \in {"host", "route", "recorder"}
            OBVIOUS
          <5>1. stack[app][i] \in Layers
            BY <2>6
          <5> QED
            BY <5>1 DEF Layers
        <4>2. \A i \in DOMAIN stack[app] : stack[app][i].what = "recorder" => i = r
          BY <2>14, <3>3 DEF StackFits
        <4> QED
          BY <3>4, <4>1, <4>2
      <3>7. live'[app] = [name |-> cur.name, path |-> cur.path]
        BY <2>1, <2>4, <3>2 DEF FrameFits
      <3>8. OneEach(app)'
        <4>1. n + 1 \in DOMAIN stack'[app] /\ r \in DOMAIN stack'[app] /\ r \in 1..n
          BY <2>6, <2>7, <3>3, <3>5
        <4>2. stack'[app][n + 1] = h /\ stack'[app][r] = stack[app][r]
          BY <2>7, <3>5, <4>1
        <4>3. \A i \in DOMAIN stack'[app] \ {r, n + 1} : stack'[app][i].what = "host"
          BY <2>6, <2>7, <3>5, <3>6
        <4>4. ExemptPath(app, r)' = stack'[app][n + 1].path /\ RecordedAs(app, r)' # NoName
          BY <1>0, <2>8, <2>14, <3>1, <3>7, <4>2 DEF ExemptPath, RecordedAs
        <4> QED
          BY <2>8, <3>1, <3>3, <4>1, <4>2, <4>3, <4>4 DEF OneEach
      <3>9. \A a \in Apps : a # app => stack'[a] = stack[a] /\ installed'[a] = installed[a]
        BY <1>0, <2>4, <2>14
      <3>10. installed'[app] /\ at' # "wire_last"
        BY <1>0, <2>4, <2>14 DEF AtRest
      <3>11. \A a \in Express \cup Hono : installed'[a] => OneEach(a)'
        BY <2>10, <3>8
      <3>12. \A a \in Express : ~installed'[a] =>
              \A i \in DOMAIN stack'[a] : stack'[a][i].what = "host"
        BY <1>0, <2>1, <2>14, <3>9 DEF WiringFits
      <3>13. \A a \in Hono : ~installed'[a] =>
              \A i \in DOMAIN stack'[a] : stack'[a][i].what # "route"
        BY <1>0, <1>h, <3>9, <3>10
      <3> QED
        BY <3>10, <3>11, <3>12, <3>13 DEF WiringFits
    <2> QED
      BY <1>3, <2>4, <2>11, <2>12, <2>13, <2>14
  <1>4. CASE PatchEmit
    <2>1. /\ cur.app = Server /\ at = "wire_last" /\ at' = "idle" /\ UNCHANGED live
          /\ \A a \in Apps : a # Server => stack'[a] = stack[a] /\ installed'[a] = installed[a]
      BY <1>0, <1>4 DEF PatchEmit, Step
    <2>2. \A a \in Express \cup Hono :
            a # cur.app /\ live'[a] = live[a] /\ stack'[a] = stack[a] /\ installed'[a] = installed[a]
      BY <1>0, <2>1
    <2> QED
      BY <1>a, <2>1, <2>2 DEF WiringFits
  <1>5. CASE Throws
    <2>1. ~AtRest
      BY <1>5, ThrowFacts
    <2>2. PICK app : app = cur.app
      OBVIOUS
    <2>3. PICK s : s = Unwound(app)
      OBVIOUS
    <2>4. /\ at' = "idle" /\ stack' = [stack EXCEPT ![app] = s]
          /\ installed' = [installed EXCEPT ![app] = FALSE]
          /\ live' = [live EXCEPT ![app] = NoLive]
      BY <1>5, <2>2, <2>3, ThrowFacts DEF Abandon
    <2>5. /\ stack'[app] = s /\ ~installed'[app] /\ ~installed[app]
          /\ \A a \in Apps : a # app =>
               stack'[a] = stack[a] /\ installed'[a] = installed[a] /\ live'[a] = live[a]
      BY <1>0, <2>1, <2>2, <2>4 DEF FrameFits
    <2>6. /\ s \in Seq(Layers) /\ DOMAIN s = 1..Len(s)
          /\ Len(s) = IF app \in Express THEN cur.depth ELSE Len(stack[app])
          /\ \A i \in DOMAIN s : s[i] = stack[app][i]
      BY <2>1, <2>2, <2>3, UnwoundFacts
    <2>7. \A a \in Express \cup Hono : installed'[a] => OneEach(a)'
      BY <1>0, <1>a, <2>5
    <2>8. app \in Hono => \A i \in DOMAIN stack'[app] : stack'[app][i].what # "route"
      BY <1>0, <2>2, <2>5, <2>6 DEF WiringFits
    <2>9. app \in Express => \A i \in DOMAIN stack'[app] : stack'[app][i].what = "host"
      <3> SUFFICES ASSUME app \in Express, NEW i \in DOMAIN s PROVE s[i].what = "host"
        BY <2>5
      <3>1. i \in DOMAIN stack[app] /\ i # cur.depth + 1 /\ s[i] = stack[app][i]
        BY <1>0, <2>1, <2>2, <2>6 DEF DepthFits
      <3> QED
        BY <2>5, <3>1 DEF WiringFits
    <2>10. \A a \in Express : ~installed'[a] =>
             \A i \in DOMAIN stack'[a] : stack'[a][i].what = "host"
      BY <1>0, <2>2, <2>5, <2>9 DEF WiringFits
    <2>11. \A a \in Hono : ~installed'[a] =>
             \A i \in DOMAIN stack'[a] : stack'[a][i].what # "route"
      BY <1>0, <2>5, <2>8 DEF WiringFits
    <2> QED
      BY <2>4, <2>7, <2>10, <2>11 DEF WiringFits
  <1>6. CASE Between \/ UNCHANGED vars
    <2>1. UNCHANGED <<at, cur, stack, installed, live>>
      BY <1>6, BetweenFacts DEF vars, appVars, buildVars
    <2> QED
      BY <1>a, <2>1 DEF WiringFits
  <1>7. ASSUME NEW a \in Apps, HostAdds(a) PROVE WiringFits'
    <2>1. /\ AtRest /\ UNCHANGED <<at, cur, installed, live>>
          /\ Len(stack'[a]) = Len(stack[a]) + 1
          /\ \A i \in DOMAIN stack[a] : stack'[a][i] = stack[a][i]
          /\ \A i \in DOMAIN stack'[a] : i \in DOMAIN stack[a] \/ stack'[a][i].what = "host"
          /\ \A b \in Apps : b # a => stack'[b] = stack[b]
      BY <1>7, HostFacts
    <2>2. DOMAIN stack[a] \subseteq DOMAIN stack'[a]
      <3>1. stack'[a] = Append(stack[a], HostLayer)
        BY <1>0, <1>7 DEF HostAdds
      <3>2. HostLayer \in Layers
        BY DEF HostLayer, Layers
      <3> QED
        BY <1>0, <3>1, <3>2, AppendProperties
    <2>3. \A b \in Apps : \A i \in DOMAIN stack'[b] :
            stack'[b][i].what = "host" \/ (i \in DOMAIN stack[b] /\ stack'[b][i] = stack[b][i])
      BY <2>1
    <2>4. \A b \in Express \cup Hono : installed'[b] => OneEach(b)'
      <3> SUFFICES ASSUME NEW b \in Express \cup Hono, installed[b] PROVE OneEach(b)'
        BY <2>1
      <3>1. CASE b # a
        BY <1>0, <1>a, <2>1, <3>1
      <3>2. CASE b = a
        BY <2>1, <2>2, <3>2, OneEachKept DEF WiringFits
      <3> QED
        BY <3>1, <3>2
    <2>5. at' # "wire_last" /\ at # "wire_last"
      BY <2>1 DEF AtRest
    <2>6. \A b \in Hono : ~installed'[b] =>
            \A i \in DOMAIN stack'[b] : stack'[b][i].what # "route"
      <3> SUFFICES ASSUME NEW b \in Hono, ~installed[b], NEW i \in DOMAIN stack'[b]
                   PROVE  stack'[b][i].what # "route"
        BY <2>1
      <3>1. stack'[b][i].what = "host" \/ (i \in DOMAIN stack[b] /\ stack'[b][i] = stack[b][i])
        BY <1>0, <2>3
      <3> QED
        BY <1>h, <3>1
    <2>7. \A b \in Express : ~installed'[b] =>
            \A i \in DOMAIN stack'[b] : stack'[b][i].what = "host"
      BY <1>0, <1>e, <2>1, <2>3, <2>5
    <2> QED
      BY <2>4, <2>5, <2>6, <2>7 DEF WiringFits
  <1>8. ASSUME NEW a \in Apps, ClearSentinel(a) PROVE WiringFits'
    <2>1. /\ a = Server /\ UNCHANGED <<at, cur, stack, live>>
          /\ \A b \in Apps : b # Server => installed'[b] = installed[b]
      BY <1>0, <1>8 DEF ClearSentinel
    <2>2. \A b \in Express \cup Hono :
            b \in Apps /\ live'[b] = live[b] /\ stack'[b] = stack[b] /\ installed'[b] = installed[b]
      BY <1>0, <2>1
    <2> QED
      BY <1>a, <2>1, <2>2 DEF WiringFits
  <1> QED
    BY <1>1, <1>2, <1>3, <1>4, <1>5, <1>6, <1>7, <1>8, NodeCases

-----------------------------------------------------------------------------
\* The strengthening of the invariants: what a rollback cuts to is there, the series
\* are those of the current label, the locals of an install tell what it has done,
\* and no app has a handler twice.
NodeInv == NodeTypeOK /\ DepthFits /\ SeriesFits /\ FrameFits /\ StackFits /\ OwnedFits

\* At first nothing is installed and no app has a handler.
LEMMA NodeInit ==
    ASSUME Init
    PROVE  NodeInv /\ WiringFits
  <1>0. /\ Idle \in Locals /\ Idle.proc = "none" /\ Idle.wasNew = FALSE
        /\ NoName \notin Nat /\ MaxCpu \in Nat /\ 0 \in 0..MaxCpu
    BY IdleFits, NodeParametersAssumption
  <1>1. \A a \in Apps : stack[a] = << >> /\ Len(stack[a]) = 0 /\ DOMAIN stack[a] = {}
    BY EmptySeq DEF Init
  <1>2. NodeTypeOK
    <2>1. << >> \in Seq(Layers)
      BY EmptySeq
    <2>2. stack \in [Apps -> Seq(Layers)]
      BY <2>1 DEF Init
    <2> QED
      BY <1>0, <2>2 DEF Init, NodeTypeOK, NoLive
  <1>3. DepthFits
    BY DEF Init, DepthFits, AtRest
  <1>4. SeriesFits
    BY <1>0 DEF Init, SeriesFits
  <1>5. FrameFits
    BY <1>0 DEF Init, FrameFits, AtRest, IsTrimmed
  <1>6. StackFits
    BY <1>1 DEF Init, StackFits, AtRest, Express, Hono
  <1>7. WiringFits
    BY <1>1 DEF Init, WiringFits, Express, Hono
  <1> QED
    BY <1>2, <1>3, <1>4, <1>5, <1>6, <1>7 DEF NodeInv, OwnedFits, Init

\* The invariant is inductive.
THEOREM NodeInvariant == Spec => []NodeInv
  <1>1. NodeInv /\ [Next]_vars => NodeInv'
    BY NodeTypeStep, DepthStep, SeriesStep, FrameStep, StackStep, OwnedStep DEF NodeInv
  <1>2. Init => NodeInv
    BY NodeInit
  <1> QED
    BY <1>1, <1>2, PTL DEF Spec

\* With the sentinels of Express and Hono apps left alone, an app is always wired in
\* full or, between installs, not at all (express.ts:209-216, hono.ts:277-284).
THEOREM NodeWiring ==
    ASSUME Cleared \subseteq {Server}
    PROVE  Spec => []WiringFits
  <1>1. NodeInv /\ WiringFits /\ [Next]_vars => WiringFits'
    BY WiringStep DEF NodeInv
  <1>2. Init => WiringFits
    BY NodeInit
  <1> QED
    BY <1>1, <1>2, NodeInvariant, PTL DEF Spec

\* Every variable keeps the values the code assigns to it.
THEOREM NodeTypes == Spec => []NodeTypeOK
  <1>1. NodeInv => NodeTypeOK
    BY DEF NodeInv
  <1> QED
    BY NodeInvariant, <1>1, PTL

\* Only the current service has process series, whatever swaps and rollbacks come
\* between a scrape's collect() and its body (process.ts:99-103, 205-212).
THEOREM NodeLiveSeries == Spec => []OnlyLiveSeries
  <1>1. NodeInv => OnlyLiveSeries
    BY DEF NodeInv, SeriesFits, OnlyLiveSeries
  <1> QED
    BY NodeInvariant, <1>1, PTL

\* The series never show more CPU than was read, and at most one shows any: scrapes
\* that overlap count no second of CPU twice (process.ts:136-137).
THEOREM NodeCpuCounted == Spec => []CpuNotOvercounted
  <1>1. NodeInv => CpuNotOvercounted
    <2> SUFFICES ASSUME NodeInv
                 PROVE  CpuNotOvercounted
      OBVIOUS
    <2>1. SeriesFits /\ counter \in [Names -> Nat]
      BY DEF NodeInv, NodeTypeOK
    <2>2. ASSUME NEW n \in Names, NEW m \in Names \ {n}, counter[n] > 0
          PROVE  counter[m] = 0
      BY <2>1, <2>2 DEF SeriesFits
    <2> QED
      BY <2>1, <2>2 DEF SeriesFits, CpuNotOvercounted
  <1> QED
    BY NodeInvariant, <1>1, PTL

\* A collect() body that has yet to run finds a registered collector and its service
\* (process.ts:145).
THEOREM NodePendingCollector == Spec => []PendingHasCollector
  <1>1. NodeInv => PendingHasCollector
    BY DEF NodeInv, SeriesFits, PendingHasCollector
  <1> QED
    BY NodeInvariant, <1>1, PTL

\* However often a Hono app or emit is installed on again, it has at most one
\* recorder and one route (hono.ts:159-172, next.ts:266-285).
THEOREM NodeWiredOnce == Spec => []WiredOnce
  <1>1. NodeInv => WiredOnce
    <2> SUFFICES ASSUME NodeInv, NEW a \in Hono \cup {Server}, a \in Apps,
                        NEW what \in {"route", "recorder"}
                 PROVE  Cardinality(Wired(a, what)) <= 1
      BY DEF WiredOnce
    <2>1. \A i, j \in Wired(a, what) : i = j
      <3>1. CASE a \in Hono
        BY <3>1 DEF Wired, NodeInv, StackFits
      <3>2. CASE a = Server
        BY <3>2 DEF Wired, NodeInv, StackFits
      <3> QED
        BY <3>1, <3>2
    <2>2. CASE Wired(a, what) = {}
      BY <2>2, FS_EmptySet
    <2>3. ASSUME NEW i \in Wired(a, what) PROVE Cardinality(Wired(a, what)) <= 1
      <3>1. Wired(a, what) = {i}
        BY <2>1
      <3> QED
        BY <3>1, FS_Singleton
    <2> QED
      BY <2>2, <2>3
  <1> QED
    BY NodeInvariant, <1>1, PTL

\* The recorder of an app skips the metrics route the app answers, also when an
\* earlier attempt mounted it under another path (express.ts:128-131,
\* hono.ts:142-157), as long as the sentinels of the apps are left alone.
THEOREM NodeRouteExempt ==
    ASSUME Cleared \subseteq {Server}
    PROVE  Spec => []MetricsRouteExempt
  <1>1. NodeInv /\ WiringFits => MetricsRouteExempt
    <2> SUFFICES ASSUME NodeInv, WiringFits, NEW a \in Apps, installed[a],
                        NEW i \in Wired(a, "recorder"), NEW j \in Wired(a, "route")
                 PROVE  ExemptPath(a, i) = stack[a][j].path
      BY DEF MetricsRouteExempt
    <2>1. /\ i \in DOMAIN stack[a] /\ stack[a][i].what = "recorder"
          /\ j \in DOMAIN stack[a] /\ stack[a][j].what = "route"
      BY DEF Wired
    <2>2. a \in Express \cup Hono
      <3>1. a # Server
        BY <2>1 DEF NodeInv, StackFits
      <3> QED
        BY <3>1 DEF NodeInv, FrameFits
    <2>3. OneEach(a)
      BY <2>2 DEF WiringFits
    <2>4. PICK r, k \in DOMAIN stack[a] :
            /\ stack[a][r].what = "recorder" /\ stack[a][k].what = "route"
            /\ \A x \in DOMAIN stack[a] \ {r, k} : stack[a][x].what = "host"
            /\ ExemptPath(a, r) = stack[a][k].path
      BY <2>3 DEF OneEach
    <2>5. i = r /\ j = k
      BY <2>1, <2>4
    <2> QED
      BY <2>4, <2>5
  <1> QED
    BY <1>1, NodeInvariant, NodeWiring, PTL

\* No step takes a handler of the host away: what a rollback cuts off lies above all
\* of them, and so does what a patch of emit replaces.
LEMMA HostsStep ==
    ASSUME NodeInv, [Next]_vars, NEW a \in Apps
    PROVE  HostsOwn(a) \subseteq HostsOwn(a)'
  <1>0. /\ stack \in [Apps -> Seq(Layers)] /\ cur.app \in Apps /\ cur.depth \in Nat
        /\ \A b \in Apps : Len(stack[b]) \in Nat /\ DOMAIN stack[b] = 1..Len(stack[b])
        /\ origEmit \in Nat \cup {NoName} /\ NodeTypeOK /\ DepthFits /\ StackFits
        /\ NoName \notin Nat
    <2>1. NodeTypeOK /\ DepthFits /\ StackFits
      BY DEF NodeInv
    <2>2. /\ stack \in [Apps -> Seq(Layers)] /\ cur.app \in Apps /\ cur.depth \in Nat
          /\ origEmit \in Nat \cup {NoName}
      BY <2>1 DEF NodeTypeOK, Locals
    <2> QED
      BY <2>1, <2>2, NodeParametersAssumption
  <1>a. ASSUME UNCHANGED origEmit,
               \A i \in Wired(a, "host") : i \in DOMAIN stack'[a] /\ stack'[a][i] = stack[a][i]
        PROVE  HostsOwn(a) \subseteq HostsOwn(a)'
    BY <1>a DEF HostsOwn, Wired
  <1>b. ASSUME UNCHANGED origEmit, stack'[a] = stack[a]
        PROVE  HostsOwn(a) \subseteq HostsOwn(a)'
    BY <1>b DEF HostsOwn, Wired
  <1>1. ASSUME NEW b \in Apps, NEW n \in Asked, NEW p \in Paths[b], Begin(b, n, p)
        PROVE  HostsOwn(a) \subseteq HostsOwn(a)'
    BY <1>1, <1>b DEF Begin, appVars, buildVars
  <1>2. CASE MidStep
    <2>1. UNCHANGED <<stack, origEmit>>
      BY <1>0, <1>2, MidFacts
    <2> QED
      BY <1>b, <2>1
  <1>3. ASSUME NEW what \in {"route", "recorder"}, Wire(what) \/ WireLast(what)
        PROVE  HostsOwn(a) \subseteq HostsOwn(a)'
    <2>1. /\ UNCHANGED origEmit /\ stack'[cur.app] = Added(what)
          /\ \A b \in Apps : b # cur.app => stack'[b] = stack[b]
      BY <1>0, <1>3, WireFacts
    <2>2. CASE a # cur.app \/ Added(what) = stack[cur.app]
      BY <1>b, <2>1, <2>2
    <2>3. ASSUME a = cur.app, Added(what) = Append(stack[cur.app], Handler(what))
          PROVE  HostsOwn(a) \subseteq HostsOwn(a)'
      <3>1. Handler(what) \in Layers
        BY <1>0, AddedFacts
      <3>2. \A i \in 1..Len(stack[a]) : i \in DOMAIN stack'[a] /\ stack'[a][i] = stack[a][i]
        BY <1>0, <2>1, <2>3, <3>1, AppendProperties
      <3> QED
        BY <1>0, <1>a, <2>1, <3>2 DEF Wired
    <2> QED
      BY <2>2, <2>3 DEF Added
  <1>4. CASE PatchEmit
    <2>1. /\ ~AtRest /\ cur.app = Server
          /\ stack' = [stack EXCEPT ![Server] = Append(SubSeq(@, 1, cur.depth), Handler("recorder"))]
          /\ origEmit' = IF origEmit = NoName THEN cur.depth ELSE origEmit
      BY <1>4 DEF PatchEmit, Step, AtRest
    <2>2. CASE a # Server
      <3>1. stack'[a] = stack[a]
        BY <1>0, <2>1, <2>2
      <3> QED
        BY <2>2, <3>1 DEF HostsOwn, Wired
    <2>3. CASE a = Server
      <3>1. cur.depth = (IF origEmit # NoName THEN origEmit ELSE Len(stack[Server]))
        BY <1>0, <2>1 DEF DepthFits, PriorDepth
      <3>2. \A i \in HostsOwn(a) : i \in 1..cur.depth /\ stack[a][i].what = "host"
        BY <1>0, <2>3, <3>1 DEF HostsOwn, Wired
      <3>3. \A i \in 1..cur.depth : i \in DOMAIN stack'[a] /\ stack'[a][i] = stack[a][i]
        BY <1>0, <1>4, <2>1, <2>3, PatchedFacts
      <3>4. origEmit' # NoName => origEmit' = cur.depth
        BY <2>1, <3>1
      <3> QED
        <4> SUFFICES ASSUME NEW i \in HostsOwn(a) PROVE i \in HostsOwn(a)'
          OBVIOUS
        <4>1. i \in DOMAIN stack'[a] /\ stack'[a][i].what = "host"
          BY <3>2, <3>3
        <4>2. origEmit' # NoName => i <= origEmit'
          BY <3>2, <3>4
        <4> QED
          BY <4>1, <4>2 DEF HostsOwn, Wired
    <2> QED
      BY <2>2, <2>3
  <1>5. CASE Throws
    <2>1. ~AtRest
      BY <1>5, ThrowFacts
    <2>2. PICK s : s = Unwound(cur.app)
      OBVIOUS
    <2>3. UNCHANGED origEmit /\ stack' = [stack EXCEPT ![cur.app] = s]
      BY <1>5, <2>2, ThrowFacts DEF Abandon
    <2>4. CASE a # cur.app
      BY <1>0, <1>b, <2>3, <2>4
    <2>5. CASE a = cur.app
      <3>1. /\ s \in Seq(Layers) /\ DOMAIN s = 1..Len(s) /\ stack'[a] = s
            /\ Len(s) = IF a \in Express THEN cur.depth ELSE Len(stack[a])
            /\ \A i \in DOMAIN s : s[i] = stack[a][i]
        <4>1. /\ s \in Seq(Layers)
              /\ Len(s) = IF cur.app \in Express THEN cur.depth ELSE Len(stack[cur.app])
              /\ \A i \in 1..Len(s) : s[i] = stack[cur.app][i]
          BY <1>0, <2>1, <2>2, UnwoundFacts
        <4>2. DOMAIN s = 1..Len(s)
          BY <4>1
        <4>3. stack'[a] = s
          BY <1>0, <2>3, <2>5
        <4> QED
          BY <2>5, <4>1, <4>2, <4>3
      <3>2. \A i \in Wired(a, "host") : i \in DOMAIN s
        <4> SUFFICES ASSUME NEW i \in 1..Len(stack[a]), stack[a][i].what = "host" PROVE i <= Len(s)
          BY <1>0, <3>1 DEF Wired
        <4>1. a \in Express => ~(i > cur.depth)
          BY <1>0, <2>1, <2>5 DEF StackFits
        <4> QED
          BY <1>0, <3>1, <4>1
      <3> QED
        BY <1>a, <2>3, <3>1, <3>2
    <2> QED
      BY <2>4, <2>5
  <1>6. CASE Between \/ UNCHANGED vars
    <2>1. UNCHANGED <<stack, origEmit>>
      BY <1>6, BetweenFacts DEF vars, appVars, buildVars
    <2> QED
      BY <1>b, <2>1
  <1>7. ASSUME NEW b \in Apps, HostAdds(b) PROVE HostsOwn(a) \subseteq HostsOwn(a)'
    <2>1. /\ UNCHANGED origEmit
          /\ stack' = [stack EXCEPT ![b] = Append(stack[b], HostLayer)]
      BY <1>7 DEF HostAdds
    <2>2. CASE a # b
      BY <1>0, <1>b, <2>1, <2>2
    <2>3. CASE a = b
      <3>1. HostLayer \in Layers /\ stack'[a] = Append(stack[a], HostLayer)
        BY <1>0, <2>1, <2>3 DEF HostLayer, Layers
      <3>2. \A i \in 1..Len(stack[a]) : i \in DOMAIN stack'[a] /\ stack'[a][i] = stack[a][i]
        BY <1>0, <3>1, AppendProperties
      <3> QED
        BY <1>0, <1>a, <2>1, <3>2 DEF Wired
    <2> QED
      BY <2>2, <2>3
  <1>8. ASSUME NEW b \in Apps, ClearSentinel(b) PROVE HostsOwn(a) \subseteq HostsOwn(a)'
    BY <1>8, <1>b DEF ClearSentinel
  <1> QED
    BY <1>0, <1>1, <1>2, <1>3, <1>4, <1>5, <1>6, <1>7, <1>8, NodeCases

\* The rollback removes what the attempt added and nothing of the host's, and no
\* install after a cleared sentinel loses the original emit (express.ts:211-216,
\* next.ts:269-277).
THEOREM NodeHostHandlers == Spec => HostHandlersStay
  <1>1. NodeInv /\ NodeInv' /\ [Next]_vars =>
          [\A a \in Apps : Cardinality(HostsOwn(a)) <= Cardinality(HostsOwn(a)')]_vars
    <2> SUFFICES ASSUME NodeInv, NodeInv', [Next]_vars, NEW a \in Apps
                 PROVE  Cardinality(HostsOwn(a)) <= Cardinality(HostsOwn(a)')
      OBVIOUS
    <2>1. HostsOwn(a) \subseteq HostsOwn(a)'
      BY HostsStep
    <2>2. HostsOwn(a)' \subseteq 1..Len(stack'[a]) /\ Len(stack'[a]) \in Nat
      <3>1. stack'[a] \in Seq(Layers)
        BY DEF NodeInv, NodeTypeOK
      <3> QED
        BY <3>1 DEF HostsOwn, Wired
    <2>3. IsFiniteSet(HostsOwn(a)')
      <3>1. IsFiniteSet(1..Len(stack'[a]))
        BY <2>2, FS_Interval
      <3> QED
        BY <2>2, <3>1, FS_Subset
    <2> QED
      BY <2>1, <2>3, FS_Subset
  <1> QED
    BY <1>1, NodeInvariant, PTL DEF Spec, HostHandlersStay

-----------------------------------------------------------------------------
(* The install implements InstallTxn.                                      *)

\* The requests of the app, or of every server, are recorded.
IsWired(a) == IF a = Server THEN Wired(a, "recorder") # {} ELSE installed[a]

\* A wired app has one recorder, and the abstract state its service.
WiredName(a) ==
    /\ IsWired(a) => \E r : /\ Wired(a, "recorder") = {r}
                            /\ CommittedWiring(a) = RecordedAs(a, r)
    /\ ~IsWired(a) => CommittedWiring(a) = NoName

\* That holds of every app.
LEMMA WiredNames == NodeInv /\ WiringFits => \A a \in Apps : WiredName(a)
  <1> SUFFICES ASSUME NodeInv, WiringFits, NEW a \in Apps PROVE WiredName(a)
    OBVIOUS
  <1>1. ASSUME a # Server, installed[a] PROVE WiredName(a)
    <2>1. a \in Express \cup Hono
      BY <1>1 DEF NodeInv, FrameFits
    <2>2. PICK r, k \in DOMAIN stack[a] :
            /\ stack[a][r].what = "recorder" /\ stack[a][k].what = "route"
            /\ \A i \in DOMAIN stack[a] \ {r, k} : stack[a][i].what = "host"
      BY <1>1, <2>1 DEF WiringFits, OneEach
    <2>3. Wired(a, "recorder") = {r} /\ Wired(a, "route") = {k}
      BY <2>2 DEF Wired
    <2>4. Cardinality(Wired(a, "recorder")) = 1 /\ Cardinality(Wired(a, "route")) = 1
      BY <2>3, FS_Singleton
    <2>5. ~(~AtRest /\ cur.app = a) /\ ~Untouched(a)
      BY <1>1 DEF NodeInv, FrameFits, Untouched
    <2>6. CommittedWiring(a) = RecordedAs(a, CHOOSE i \in Wired(a, "recorder") : TRUE)
      BY <1>1, <2>4, <2>5 DEF CommittedWiring
    <2>7. (CHOOSE i \in Wired(a, "recorder") : TRUE) = r
      BY <2>3
    <2> QED
      BY <1>1, <2>3, <2>6, <2>7 DEF WiredName, IsWired
  <1>2. ASSUME a # Server, ~installed[a] PROVE WiredName(a)
    <2>1. ASSUME ~(~AtRest /\ cur.app = a) PROVE Untouched(a)
      <3>1. CASE a \in Hono
        BY <1>2, <3>1 DEF Untouched
      <3>2. CASE a \notin Hono
        <4>1. \A i \in DOMAIN stack[a] : stack[a][i].what = "host"
          <5>1. CASE a \in Express
            BY <1>2, <2>1, <5>1 DEF WiringFits, AtRest
          <5>2. CASE a \notin Express
            BY <1>2, <3>2, <5>2 DEF NodeInv, StackFits
          <5> QED
            BY <5>1, <5>2
        <4>2. Wired(a, "recorder") = {} /\ Wired(a, "route") = {}
          BY <4>1 DEF Wired
        <4> QED
          BY <1>2, <4>2 DEF Untouched
      <3> QED
        BY <3>1, <3>2
    <2>2. CommittedWiring(a) = NoName
      BY <1>2, <2>1 DEF CommittedWiring
    <2> QED
      BY <1>2, <2>2 DEF WiredName, IsWired
  <1>3. ASSUME a = Server, Wired(a, "recorder") = {} PROVE WiredName(a)
    <2>1. CommittedWiring(a) = NoName
      <3>1. Untouched(a)
        BY <1>3 DEF Untouched
      <3> QED
        BY <1>3, <3>1, FS_EmptySet DEF CommittedWiring
    <2> QED
      BY <1>3, <2>1 DEF WiredName, IsWired
  <1>4. ASSUME a = Server, NEW r \in Wired(a, "recorder") PROVE WiredName(a)
    <2>1. Wired(a, "recorder") = {r} /\ Wired(a, "route") = {}
      <3>1. /\ r \in DOMAIN stack[Server] /\ stack[Server][r].what = "recorder"
            /\ \A i \in DOMAIN stack[Server] : i # r => stack[Server][i].what = "host"
        BY <1>4 DEF Wired, NodeInv, StackFits
      <3> QED
        BY <1>4, <3>1 DEF Wired
    <2>2. Cardinality(Wired(a, "recorder")) = 1 /\ Cardinality(Wired(a, "route")) = 0
      BY <2>1, FS_Singleton, FS_EmptySet
    <2>3. ~Untouched(a)
      BY <1>4 DEF Untouched
    <2>4. CommittedWiring(a) = RecordedAs(a, CHOOSE i \in Wired(a, "recorder") : TRUE)
      BY <1>4, <2>2, <2>3 DEF CommittedWiring
    <2>5. (CHOOSE i \in Wired(a, "recorder") : TRUE) = r
      BY <2>1
    <2> QED
      BY <1>4, <2>1, <2>4, <2>5 DEF WiredName, IsWired
  <1> QED
    BY <1>1, <1>2, <1>3, <1>4

\* The same of the next state.
LEMMA WiredNamesNext == NodeInv' /\ WiringFits' => \A a \in Apps : WiredName(a)'
  <1>1. (NodeInv /\ WiringFits => \A a \in Apps : WiredName(a))'
    BY WiredNames, PTL
  <1> QED
    BY <1>1

\* An app whose recorder stays in place keeps its service.
LEMMA WiringKept ==
    ASSUME NodeInv, WiringFits, NodeInv', WiringFits', NEW a \in Apps,
           IsWired(a)' <=> IsWired(a),
           IsWired(a) =>
             /\ live'[a] = live[a]
             /\ \A i \in DOMAIN stack[a] : i \in DOMAIN stack'[a] /\ stack'[a][i] = stack[a][i]
    PROVE  CommittedWiring(a)' = CommittedWiring(a)
  <1>1. WiredName(a) /\ WiredName(a)'
    BY WiredNames, WiredNamesNext
  <1>2. CASE ~IsWired(a)
    BY <1>1, <1>2 DEF WiredName
  <1>3. CASE IsWired(a)
    <2>1. PICK r : Wired(a, "recorder") = {r} /\ CommittedWiring(a) = RecordedAs(a, r)
      BY <1>1, <1>3 DEF WiredName
    <2>2. PICK q : Wired(a, "recorder")' = {q} /\ CommittedWiring(a)' = RecordedAs(a, q)'
      BY <1>1, <1>3 DEF WiredName
    <2>3. r \in DOMAIN stack[a] /\ stack'[a][r] = stack[a][r] /\ r \in Wired(a, "recorder")'
      BY <1>3, <2>1 DEF Wired
    <2>4. q = r
      BY <2>2, <2>3
    <2>5. RecordedAs(a, r)' = RecordedAs(a, r)
      BY <1>3, <2>3 DEF RecordedAs
    <2> QED
      BY <2>1, <2>2, <2>4, <2>5
  <1> QED
    BY <1>2, <1>3

\* So does one that the step does not touch.
LEMMA WiringUntouched ==
    ASSUME NodeInv, WiringFits, NodeInv', WiringFits', NEW a \in Apps,
           stack'[a] = stack[a], installed'[a] = installed[a], live'[a] = live[a]
    PROVE  CommittedWiring(a)' = CommittedWiring(a)
  <1>1. IsWired(a)' <=> IsWired(a)
    BY DEF IsWired, Wired
  <1> QED
    BY <1>1, WiringKept

\* What the abstract state keeps when no install commits.
Kept ==
    /\ CommittedIdentity' = CommittedIdentity
    /\ CommittedExposed' = CommittedExposed
    /\ BuildsRestored' = BuildsRestored
    /\ \A a \in Apps : CommittedWiring(a)' = CommittedWiring(a)

\* What it becomes when the install that runs does.
Commits ==
    /\ CommittedWiring(cur.app) = NoName \/ cur.app = Server
    /\ CommittedIdentity' = Strip[cur.name]
    /\ CommittedExposed' = cur.name
    /\ BuildsRestored' = BuildsRestored \cup {cur.key}
    /\ \A a \in Apps : CommittedWiring(a)' = IF a = cur.app THEN cur.name ELSE CommittedWiring(a)

\* Such a step is a stutter of InstallTxn,
LEMMA KeptIsStutter ==
    ASSUME Kept
    PROVE  UNCHANGED Txn!txnVars
  BY DEF Kept, Txn!txnVars

\* and such a one its commit.
LEMMA CommitsIsCommit ==
    ASSUME Commits, cur.app \in Apps, cur.name \in Names, cur.key \in Keys, cur.key[1] = cur.name
    PROVE  Txn!TxnNext
  <1>1. PICK t \in Seconds : cur.key = <<cur.name, t>>
    BY DEF Keys
  <1>2. [a \in Apps |-> CommittedWiring(a)'] =
          [[a \in Apps |-> CommittedWiring(a)] EXCEPT ![cur.app] = cur.name]
    BY DEF Commits
  <1>3. Txn!Commit(cur.app, cur.name, t)
    BY <1>1, <1>2 DEF Commits, Txn!Commit
  <1> QED
    BY <1>1, <1>3 DEF Txn!TxnNext

\* What a statement or a rollback leaves of the state to roll back to.
LEMMA RollbackKept ==
    ASSUME ~torn', NodeInv,
           (\E a \in Apps, n \in Asked : \E p \in Paths[a] : Begin(a, n, p))
           \/ MidStep \/ (\E what \in {"route", "recorder"} : Wire(what)) \/ Throws
    PROVE  /\ CommittedIdentity' = CommittedIdentity
           /\ CommittedExposed' = CommittedExposed
           /\ BuildsRestored' = BuildsRestored
  <1> USE DEF CommittedIdentity, CommittedExposed, BuildsRestored, MyKeys, AtRest, Step
  <1>0. /\ cur \in Locals /\ SeriesFits /\ FrameFits /\ NodeTypeOK /\ DepthFits
        /\ label \in Names \cup {NoName} /\ NoName \notin Names
    BY NodeNamesAssumption DEF NodeInv, NodeTypeOK
  <1>1. ASSUME NEW a \in Apps, NEW n \in Asked, NEW p \in Paths[a], Begin(a, n, p)
        PROVE  /\ CommittedIdentity' = CommittedIdentity
               /\ CommittedExposed' = CommittedExposed
               /\ BuildsRestored' = BuildsRestored
    <2>1. /\ at = "idle" /\ at' = "set_service" /\ UNCHANGED <<identity, label, builds>>
          /\ cur'.proc = "none" /\ cur'.wasNew = FALSE
      BY <1>0, <1>1, BeginFacts, IdleFits DEF Begin, procVars, buildVars
    <2>2. cur.proc = "none" /\ ~cur.wasNew
      BY <1>0, <2>1 DEF SeriesFits, FrameFits
    <2> QED
      BY <2>1, <2>2
  <1>2. CASE SetService
    BY <1>0, <1>2 DEF SetService, FrameFits, procVars, buildVars
  <1>3. CASE ReuseProcess
    BY <1>0, <1>3 DEF ReuseProcess, SeriesFits, Locals, procVars, buildVars
  <1>4. CASE SwapProcess
    BY <1>0, <1>4 DEF SwapProcess, SeriesFits, Locals, buildVars
  <1>5. CASE FreshProcess
    BY <1>0, <1>5 DEF FreshProcess, SeriesFits, Locals, buildVars
  <1>6. CASE RegisterDefaults
    BY <1>6 DEF RegisterDefaults, procVars, buildVars
  <1>7. ASSUME NEW t \in Seconds, RegisterBuildInfo(t)
        PROVE  /\ CommittedIdentity' = CommittedIdentity
               /\ CommittedExposed' = CommittedExposed
               /\ BuildsRestored' = BuildsRestored
    <2>1. PICK k : k = <<cur.name, t>>
      OBVIOUS
    <2>2. /\ at = "build" /\ at' \in {"wire_last", "props"} /\ UNCHANGED <<identity, label>>
          /\ builds' = builds \cup {k} /\ cur' = [cur EXCEPT !.key = k, !.wasNew = IsNew(k)]
      BY <1>7, <2>1 DEF RegisterBuildInfo, procVars, buildVars
    <2>3. /\ cur'.pre = cur.pre /\ cur'.proc = cur.proc /\ cur'.prior = cur.prior
          /\ cur'.key = k /\ cur'.wasNew = IsNew(k)
      BY <1>0, <2>2 DEF Locals
    <2>4. ~cur.wasNew
      BY <1>0, <2>2 DEF FrameFits
    <2>5. BuildsRestored' = BuildsRestored
      <3>1. owned = builds
        BY <1>7 DEF RegisterBuildInfo, NodeInv, OwnedFits
      <3> QED
        BY <2>2, <2>3, <2>4, <3>1 DEF IsNew
    <2> QED
      BY <2>2, <2>3, <2>5
  <1>8. CASE SetProps
    BY <1>8 DEF SetProps, procVars, buildVars
  <1>9. ASSUME NEW what \in {"route", "recorder"}, Wire(what)
        PROVE  /\ CommittedIdentity' = CommittedIdentity
               /\ CommittedExposed' = CommittedExposed
               /\ BuildsRestored' = BuildsRestored
    BY <1>9 DEF Wire, procVars, buildVars
  <1>10. CASE Throws
    <2>1. ThrowAndRollBack
      BY <1>10 DEF Throws, ThrowHalfRegistered, ThrowHalfBuilt
    <2>2. ~AtRest /\ AtRest' /\ Abandon
      BY <1>10, ThrowFacts
    <2>3. cur'.proc = "none" /\ ~cur'.wasNew /\ builds' = BuildsRestored /\ label' = LabelRestored
      BY <2>1, <2>2, IdleFits DEF ThrowAndRollBack, RestoreProcess, Abandon
    <2>4. CommittedIdentity = cur.pre /\ identity' = cur.pre
      BY <1>0, <2>2 DEF Abandon, FrameFits, IsTrimmed
    <2> QED
      BY <2>2, <2>3, <2>4 DEF LabelRestored
  <1> QED
    BY <1>1, <1>2, <1>3, <1>4, <1>5, <1>6, <1>7, <1>8, <1>9, <1>10 DEF MidStep

\* Nothing but a commit changes the service an app is recorded under.
LEMMA WiringsKept ==
    ASSUME Cleared \subseteq {Server}, NodeInv, WiringFits, NodeInv', WiringFits', [Next]_vars,
           ~PatchEmit, ~(\E what \in {"route", "recorder"} : WireLast(what)),
           NEW a \in Apps
    PROVE  CommittedWiring(a)' = CommittedWiring(a)
  <1>0. /\ stack \in [Apps -> Seq(Layers)] /\ installed \in [Apps -> BOOLEAN] /\ NodeTypeOK
        /\ live \in [Apps -> [name : Names \cup {NoName}, path : AnyPath \cup {NoName}]]
        /\ cur.app \in Apps /\ DepthFits /\ FrameFits /\ StackFits
    <2>1. NodeTypeOK /\ DepthFits /\ FrameFits /\ StackFits
      BY DEF NodeInv
    <2> QED
      BY <2>1 DEF NodeTypeOK, Locals
  <1>a. ASSUME a # Server, ~installed[a], ~installed'[a]
        PROVE  CommittedWiring(a)' = CommittedWiring(a)
    <2>1. ~IsWired(a) /\ ~IsWired(a)'
      BY <1>a DEF IsWired
    <2> QED
      BY <2>1, WiringKept
  <1>1. ASSUME NEW b \in Apps, NEW n \in Asked, NEW p \in Paths[b], Begin(b, n, p)
        PROVE  CommittedWiring(a)' = CommittedWiring(a)
    BY <1>1, WiringUntouched DEF Begin, appVars, buildVars
  <1>2. CASE MidStep
    <2>1. ~AtRest /\ UNCHANGED <<stack, installed>>
      BY <1>0, <1>2, MidFacts
    <2>2. CASE SetProps
      <3>1. CASE a = cur.app
        <4>1. a # Server /\ ~installed[a]
          BY <1>0, <2>1, <2>2, <3>1 DEF SetProps, Step, DepthFits, FrameFits
        <4> QED
          BY <1>a, <2>1, <4>1
      <3>2. CASE a # cur.app
        <4>1. live'[a] = live[a]
          BY <1>0, <2>2, <3>2 DEF SetProps
        <4> QED
          BY <2>1, <4>1, WiringUntouched
      <3> QED
        BY <3>1, <3>2
    <2>3. CASE ~SetProps
      <3>1. UNCHANGED live
        BY <1>2, <2>3 DEF MidStep, SetService, ReuseProcess, SwapProcess, FreshProcess,
                          RegisterDefaults, RegisterBuildInfo, appVars, buildVars
      <3> QED
        BY <2>1, <3>1, WiringUntouched
    <2> QED
      BY <2>2, <2>3
  <1>3. ASSUME NEW what \in {"route", "recorder"}, Wire(what)
        PROVE  CommittedWiring(a)' = CommittedWiring(a)
    <2>1. /\ ~AtRest /\ cur.app # Server /\ UNCHANGED <<live, installed>>
          /\ \A b \in Apps : b # cur.app => stack'[b] = stack[b]
      BY <1>0, <1>3, WireFacts
    <2>2. CASE a = cur.app
      BY <1>0, <1>a, <2>1, <2>2 DEF FrameFits
    <2>3. CASE a # cur.app
      BY <2>1, <2>3, WiringUntouched
    <2> QED
      BY <2>2, <2>3
  <1>4. CASE Throws
    <2>1. ~AtRest
      BY <1>4, ThrowFacts
    <2>2. /\ stack' = [stack EXCEPT ![cur.app] = Unwound(cur.app)]
          /\ installed' = [installed EXCEPT ![cur.app] = FALSE]
          /\ live' = [live EXCEPT ![cur.app] = NoLive]
      BY <1>4, ThrowFacts DEF Abandon
    <2>3. CASE a # cur.app
      BY <1>0, <2>2, <2>3, WiringUntouched
    <2>4. CASE a = cur.app /\ a # Server
      BY <1>0, <1>a, <2>1, <2>2, <2>4 DEF FrameFits
    <2>5. CASE a = cur.app /\ a = Server
      <3>1. stack'[a] = stack[a]
        BY <1>0, <2>2, <2>5 DEF Unwound, Express
      <3>2. IsWired(a)' <=> IsWired(a)
        BY <2>5, <3>1 DEF IsWired, Wired
      <3>3. WiredName(a) /\ WiredName(a)'
        BY WiredNames, WiredNamesNext
      <3>4. \A i : RecordedAs(a, i)' = RecordedAs(a, i)
        BY <2>5, <3>1 DEF RecordedAs, Hono
      <3>5. Wired(a, "recorder")' = Wired(a, "recorder")
        BY <3>1 DEF Wired
      <3> QED
        BY <3>2, <3>3, <3>4, <3>5 DEF WiredName
    <2> QED
      BY <2>3, <2>4, <2>5
  <1>5. CASE Between \/ UNCHANGED vars
    <2>1. UNCHANGED <<stack, installed, live>>
      BY <1>5, BetweenFacts DEF vars, appVars, buildVars
    <2> QED
      BY <2>1, WiringUntouched
  <1>6. ASSUME NEW b \in Apps, HostAdds(b) PROVE CommittedWiring(a)' = CommittedWiring(a)
    <2>1. /\ UNCHANGED <<installed, live>>
          /\ \A i \in DOMAIN stack[b] : stack'[b][i] = stack[b][i]
          /\ \A i \in DOMAIN stack'[b] : i \in DOMAIN stack[b] \/ stack'[b][i].what = "host"
          /\ \A c \in Apps : c # b => stack'[c] = stack[c]
      BY <1>0, <1>6, HostFacts
    <2>2. CASE a # b
      BY <2>1, <2>2, WiringUntouched
    <2>3. CASE a = b
      <3>1. \A i \in DOMAIN stack[a] : i \in DOMAIN stack'[a]
        <4>1. stack'[a] = Append(stack[a], HostLayer) /\ HostLayer \in Layers
          BY <1>0, <1>6, <2>3 DEF HostAdds, HostLayer, Layers
        <4> QED
          BY <1>0, <4>1, AppendProperties
      <3>2. Wired(a, "recorder")' = Wired(a, "recorder")
        BY <2>1, <2>3, <3>1 DEF Wired
      <3>3. IsWired(a)' <=> IsWired(a)
        BY <2>1, <3>2 DEF IsWired
      <3> QED
        BY <2>1, <2>3, <3>1, <3>3, WiringKept
    <2> QED
      BY <2>2, <2>3
  <1>7. ASSUME NEW b \in Apps, ClearSentinel(b) PROVE CommittedWiring(a)' = CommittedWiring(a)
    <2>1. b = Server /\ UNCHANGED <<stack, live>> /\ installed' = [installed EXCEPT ![b] = FALSE]
      BY <1>7 DEF ClearSentinel
    <2>2. IsWired(a)' <=> IsWired(a)
      BY <1>0, <2>1 DEF IsWired, Wired
    <2> QED
      BY <2>1, <2>2, WiringKept
  <1> QED
    BY <1>1, <1>2, <1>3, <1>4, <1>5, <1>6, <1>7, NodeCases

\* The sentinel commits the identity, the label and the sample of the install.
LEMMA EndCommits ==
    ASSUME NodeInv, PatchEmit \/ (\E what \in {"route", "recorder"} : WireLast(what))
    PROVE  /\ CommittedIdentity' = Strip[cur.name] /\ CommittedExposed' = cur.name
           /\ BuildsRestored' = BuildsRestored \cup {cur.key}
           /\ cur.app \in Apps /\ cur.name \in Names /\ cur.key \in Keys /\ cur.key[1] = cur.name
  <1>1. NodeTypeOK /\ FrameFits
    BY DEF NodeInv
  <1>2. ~AtRest /\ AtRest' /\ cur'.proc = "none" /\ ~cur'.wasNew
    BY <1>1, EndFacts
  <1>3. at = "wire_last" /\ UNCHANGED <<identity, label, builds>>
    BY DEF PatchEmit, WireLast, Step, procVars, buildVars
  <1>4. /\ identity = Strip[cur.name] /\ label = cur.name
        /\ cur.key \in builds /\ cur.key[1] = cur.name
    BY <1>1, <1>2, <1>3 DEF FrameFits
  <1>5. cur.app \in Apps /\ cur.name \in Names /\ cur.key \in Keys
    BY <1>1 DEF NodeTypeOK, Locals
  <1>6. BuildsRestored' = builds /\ BuildsRestored \cup {cur.key} = builds
    BY <1>2, <1>3, <1>4 DEF BuildsRestored, MyKeys
  <1> QED
    BY <1>2, <1>3, <1>4, <1>5, <1>6 DEF CommittedIdentity, CommittedExposed, AtRest

\* The last handler of an Express or Hono app commits it.
LEMMA WireLastCommits ==
    ASSUME NodeInv, WiringFits, NodeInv', WiringFits',
           NEW what \in {"route", "recorder"}, WireLast(what)
    PROVE  Commits
  <1>a. PICK app : app = cur.app
    OBVIOUS
  <1>0. /\ NodeTypeOK /\ DepthFits /\ FrameFits /\ stack \in [Apps -> Seq(Layers)]
        /\ installed \in [Apps -> BOOLEAN] /\ app \in Apps
    <2>1. NodeTypeOK /\ DepthFits /\ FrameFits
      BY DEF NodeInv
    <2> QED
      BY <1>a, <2>1 DEF NodeTypeOK, Locals
  <1>1. /\ ~AtRest /\ at = "wire_last" /\ app \in (Express \cup Hono) /\ app # Server
        /\ UNCHANGED live /\ stack'[app] = Added(what) /\ ~WiredFirst(app, what)
        /\ \A a \in Apps : a # app => stack'[a] = stack[a]
        /\ installed' = [installed EXCEPT ![app] = TRUE]
    BY <1>0, <1>a, WireFacts
  <1>2. ~installed[app] /\ live[app].name = cur.name
    BY <1>0, <1>1, <1>a DEF FrameFits
  <1>3. CommittedWiring(app) = NoName
    <2>1. WiredName(app) /\ ~IsWired(app)
      BY <1>0, <1>1, <1>2, WiredNames DEF IsWired
    <2> QED
      BY <2>1 DEF WiredName
  <1>4. \A i \in Wired(app, "recorder")' : RecordedAs(app, i)' = cur.name
    <2>1. CASE app \in Hono
      BY <1>1, <1>2, <2>1 DEF RecordedAs
    <2>2. CASE app \in Express /\ app \notin Hono
      <3>1. what = "recorder"
        BY <1>1, <2>2 DEF WiredFirst
      <3>2. \A i \in 1..Len(stack[app]) : stack[app][i].what # "recorder"
        BY <1>0, <1>2, <2>2 DEF WiringFits
      <3>3. \A i \in DOMAIN stack'[app] :
              \/ i \in 1..Len(stack[app]) /\ stack'[app][i] = stack[app][i]
              \/ stack'[app][i] = Handler("recorder")
        BY <1>0, <1>1, <1>a, <3>1, AddedFacts
      <3>4. Handler("recorder").name = cur.name
        BY <1>a, <2>2 DEF Handler
      <3> QED
        BY <2>2, <3>2, <3>3, <3>4 DEF RecordedAs, Wired
    <2> QED
      BY <1>1, <2>1, <2>2
  <1>5. CommittedWiring(app)' = cur.name
    <2>1. WiredName(app)' /\ IsWired(app)'
      BY <1>0, <1>1, WiredNamesNext DEF IsWired
    <2>2. PICK r : /\ Wired(app, "recorder")' = {r}
                   /\ CommittedWiring(app)' = RecordedAs(app, r)'
      BY <2>1 DEF WiredName
    <2> QED
      BY <1>4, <2>2
  <1>6. \A a \in Apps : a # app => CommittedWiring(a)' = CommittedWiring(a)
    BY <1>0, <1>1, WiringUntouched
  <1> QED
    BY <1>a, <1>3, <1>5, <1>6, EndCommits DEF Commits

\* The patch of emit commits it for every server.
LEMMA PatchCommits ==
    ASSUME NodeInv, WiringFits, NodeInv', WiringFits', PatchEmit
    PROVE  Commits
  <1>0. /\ NodeTypeOK /\ DepthFits /\ stack \in [Apps -> Seq(Layers)] /\ cur.app \in Apps
        /\ installed \in [Apps -> BOOLEAN] /\ cur.app = Server /\ ~AtRest
    <2>1. NodeTypeOK /\ DepthFits
      BY DEF NodeInv
    <2> QED
      BY <2>1 DEF NodeTypeOK, Locals, PatchEmit, Step, AtRest
  <1>1. PICK s : s = Append(SubSeq(stack[Server], 1, cur.depth), Handler("recorder"))
    OBVIOUS
  <1>2. /\ stack'[Server] = s /\ UNCHANGED live
        /\ \A a \in Apps : a # Server => stack'[a] = stack[a] /\ installed'[a] = installed[a]
    BY <1>0, <1>1 DEF PatchEmit
  <1>3. /\ s \in Seq(Layers) /\ Len(s) = cur.depth + 1
        /\ s[cur.depth + 1] = Handler("recorder") /\ cur.depth \in Nat
    <2>1. cur.depth \in Nat
      BY <1>0 DEF NodeTypeOK, Locals
    <2> QED
      BY <1>0, <1>1, <2>1, PatchedFacts
  <1>4. /\ Handler("recorder").what = "recorder" /\ Handler("recorder").name = cur.name
        /\ Server \notin Hono
    BY <1>0 DEF Handler, Hono
  <1>5. cur.depth + 1 \in Wired(Server, "recorder")'
    BY <1>2, <1>3, <1>4 DEF Wired
  <1>6. CommittedWiring(Server)' = cur.name
    <2>1. WiredName(Server)' /\ IsWired(Server)'
      BY <1>0, <1>5, WiredNamesNext DEF IsWired
    <2>2. PICK r : /\ Wired(Server, "recorder")' = {r}
                   /\ CommittedWiring(Server)' = RecordedAs(Server, r)'
      BY <2>1 DEF WiredName
    <2>3. r = cur.depth + 1
      BY <1>5, <2>2
    <2> QED
      BY <1>2, <1>3, <1>4, <2>2, <2>3 DEF RecordedAs
  <1>7. \A a \in Apps : a # Server => CommittedWiring(a)' = CommittedWiring(a)
    BY <1>0, <1>2, WiringUntouched
  <1> QED
    BY <1>0, <1>6, <1>7, EndCommits DEF Commits

\* No app is wired and nothing is exposed at first.
LEMMA InitCommitted ==
    ASSUME Init
    PROVE  Txn!TxnInit
  <1>1. CommittedIdentity = NoName /\ CommittedExposed = NoName /\ BuildsRestored = {}
    BY IdleFits DEF Init, CommittedIdentity, CommittedExposed, BuildsRestored
  <1>2. \A a \in Apps : CommittedWiring(a) = NoName
    <2> SUFFICES ASSUME NEW a \in Apps PROVE CommittedWiring(a) = NoName
      OBVIOUS
    <2>1. WiredName(a)
      BY NodeInit, WiredNames
    <2>2. DOMAIN stack[a] = {} /\ ~installed[a]
      BY EmptySeq DEF Init
    <2>3. ~IsWired(a)
      BY <2>2 DEF IsWired, Wired
    <2> QED
      BY <2>1, <2>3 DEF WiredName
  <1> QED
    BY <1>1, <1>2 DEF Txn!TxnInit

\* Until a throw half-way, every step of the install commits, or leaves the abstract
\* state alone.
LEMMA TxnStep ==
    ASSUME Cleared \subseteq {Server}, ~torn',
           NodeInv, WiringFits, NodeInv', WiringFits', [Next]_vars
    PROVE  [Txn!TxnNext]_(Txn!txnVars)
  <1>1. CASE PatchEmit
    BY <1>1, PatchCommits, EndCommits, CommitsIsCommit
  <1>2. CASE \E what \in {"route", "recorder"} : WireLast(what)
    BY <1>2, WireLastCommits, EndCommits, CommitsIsCommit
  <1>3. CASE ~PatchEmit /\ ~(\E what \in {"route", "recorder"} : WireLast(what))
    <2>1. \A a \in Apps : CommittedWiring(a)' = CommittedWiring(a)
      BY <1>3, WiringsKept
    <2>2. /\ CommittedIdentity' = CommittedIdentity /\ CommittedExposed' = CommittedExposed
          /\ BuildsRestored' = BuildsRestored
      <3>1. CASE \/ \E a \in Apps, n \in Asked : \E p \in Paths[a] : Begin(a, n, p)
                 \/ MidStep \/ (\E what \in {"route", "recorder"} : Wire(what))
                 \/ Throws
        BY <3>1, RollbackKept
      <3>2. CASE Between \/ UNCHANGED vars \/ (\E a \in Apps : HostAdds(a) \/ ClearSentinel(a))
        <4>1. UNCHANGED <<at, cur, identity, label, builds>>
          BY <3>2, BetweenFacts DEF HostAdds, ClearSentinel, vars, procVars, buildVars
        <4> QED
          BY <4>1 DEF CommittedIdentity, CommittedExposed, BuildsRestored, MyKeys
      <3> QED
        BY <1>3, <3>1, <3>2, NodeCases
    <2> QED
      BY <2>1, <2>2, KeptIsStutter DEF Kept
  <1> QED
    BY <1>1, <1>2, <1>3

\* install() of the Node lane is all or nothing: whichever of its statements throws
\* before its effect and whatever scrapes are waiting, each call changes the identity,
\* the process metrics, the build_info samples and the app together or not at all
\* (express.ts:88-94, hono.ts:115-119), as long as the sentinels of the apps are left
\* alone, until registerProcessCollector or registerBuildInfo throws half-way, where the
\* code does leave a trace.
THEOREM NodeImplementsTxn ==
    ASSUME Cleared \subseteq {Server}
    PROVE  Spec => AllOrNothing
  <1>1. Init => Txn!TxnInit
    BY InitCommitted
  <1>2. NodeInv /\ WiringFits /\ NodeInv' /\ WiringFits' /\ [Next]_vars =>
          [torn' \/ Txn!TxnNext]_(Txn!txnVars)
    BY TxnStep
  <1> QED
    BY <1>1, <1>2, NodeInvariant, NodeWiring, PTL DEF Spec, AllOrNothing

Promise == INSTANCE InstallTxnProofs WITH
    identity <- CommittedIdentity,
    exposed <- CommittedExposed,
    builds <- BuildsRestored,
    wired <- [a \in Apps |-> CommittedWiring(a)],
    NoMetrics <- {},
    Rearmable <- {Server}

\* What has been torn stays so.
LEMMA TornStays == torn /\ [Next]_vars => torn'
  <1> SUFFICES ASSUME torn, [Next]_vars PROVE torn'
    OBVIOUS
  <1>1. ASSUME NEW a \in Apps, NEW n \in Asked, NEW p \in Paths[a], Begin(a, n, p) PROVE torn'
    BY <1>1 DEF Begin, buildVars
  <1>2. CASE MidStep
    BY <1>2 DEF MidStep, SetService, ReuseProcess, SwapProcess, FreshProcess, RegisterDefaults,
                RegisterBuildInfo, SetProps, buildVars
  <1>3. CASE PatchEmit \/ \E what \in {"route", "recorder"} : Wire(what) \/ WireLast(what)
    BY <1>3 DEF PatchEmit, Wire, WireLast, buildVars
  <1>4. CASE Throws
    BY <1>4 DEF Throws, ThrowAndRollBack, ThrowHalfRegistered, ThrowHalfBuilt
  <1>5. CASE Between \/ (\E a \in Apps : HostAdds(a) \/ ClearSentinel(a)) \/ UNCHANGED vars
    BY <1>5 DEF Between, StartScrape, CollectCpu, ConsumeCpu, HostAdds, ClearSentinel, vars,
                buildVars
  <1> QED
    BY <1>1, <1>2, <1>3, <1>4, <1>5, NodeCases

\* So the series of a Node process can be joined: whichever calls have failed, every
\* app that records has a build_info sample of its service, and the process metrics
\* carry the identity, until a statement throws half-way and as long as the sentinels of
\* the apps are left alone.
THEOREM NodeCoherent ==
    ASSUME Cleared \subseteq {Server}
    PROVE  Spec => [](torn \/ Txn!Coherent)
  <1> DEFINE Sound == Promise!TxnTypeOK /\ Promise!Coherent
  <1>1. Init => Sound
    <2>1. Txn!TxnInit => Promise!TxnInit
      BY DEF Txn!TxnInit, Promise!TxnInit
    <2> QED
      BY <2>1, InitCommitted, Promise!CoherentInit
  <1>2. NodeInv /\ WiringFits /\ NodeInv' /\ WiringFits' /\ (torn \/ Sound) /\ [Next]_vars
          => torn' \/ Sound'
    <2> SUFFICES ASSUME NodeInv, WiringFits, NodeInv', WiringFits', Sound, [Next]_vars, ~torn'
                 PROVE  Sound'
      BY TornStays
    <2>1. [Txn!TxnNext]_(Txn!txnVars)
      BY TxnStep
    <2>2. [Promise!TxnNext]_(Promise!txnVars)
      BY <2>1 DEF Promise!TxnNext, Txn!TxnNext, Promise!Commit, Txn!Commit, Promise!txnVars,
         Txn!txnVars
    <2> QED
      BY <2>2, Promise!CoherentStep, NodeNamesAssumption
  <1>3. Sound => Txn!Coherent
    BY DEF Promise!Coherent, Txn!Coherent, Promise!WiredHasBuildInfo, Txn!WiredHasBuildInfo,
       Promise!MetricsCarryIdentity, Txn!MetricsCarryIdentity
  <1> HIDE DEF Sound
  <1> QED
    BY <1>1, <1>2, <1>3, NodeInvariant, NodeWiring, PTL DEF Spec
=============================================================================
