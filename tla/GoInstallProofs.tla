---------------------------- MODULE GoInstallProofs ----------------------------
(***************************************************************************)
(* Theorems about GoInstall, for any calls, registries, services and       *)
(* collectors: one build_info sample per registry, and the identity that   *)
(* is recorded for it.                                                     *)
(***************************************************************************)
EXTENDS GoInstall, FiniteSetTheorems, TLAPS

\* The calls on a registry that have recorded their service, and not failed.
Recorded(g) == {c \in Calls : mine[c].reg = g /\ pc[c] \in 0..Done}

\* A call under way has a registry and a service.
CallsFit ==
    \A c \in Calls :
        /\ pc[c] # Idle => mine[c].reg \in Registries
        /\ pc[c] \in Entered..Done => mine[c].service \in Trimmed
        /\ c \in isNew => pc[c] \in 1..Failed /\ mine[c].service \in Trimmed

\* The call that registered build_info is the only one to set it.
MakersFit ==
    /\ \A c \in Calls : c \in isNew => registered[mine[c].reg]["build_info"] = mine[c].service
    /\ \A c, d \in Calls : c \in isNew /\ d \in isNew /\ mine[c].reg = mine[d].reg => c = d
    /\ \A g \in Registries :
         /\ registered[g]["build_info"] \in Trimmed =>
              \E c \in Calls : c \in isNew /\ mine[c].reg = g
         /\ \A b \in samples[g] :
              /\ mine[b.by].reg = g /\ b.by \in isNew /\ pc[b.by] = Done
              /\ b.service = mine[b.by].service
    /\ \A c \in Calls : c \in isNew /\ pc[c] = Done =>
         [by |-> c, service |-> mine[c].service] \in samples[mine[c].reg]
    /\ \A c \in Calls : pc[c] \in 1..Done => registered[mine[c].reg]["build_info"] \in Trimmed

\* The calls on a registry follow each other, and everything is the first one's.
CleanAt(g) ==
    /\ \A c, d \in Calls : Running(c) /\ Running(d) /\ mine[c].reg = g /\ mine[d].reg = g => c = d
    /\ \A name \in Range(Collectors) : registered[g][name] \in {None, Foreign, identity[g]}
    /\ identity[g] = None <=> Recorded(g) = {}
    /\ \A c \in Recorded(g) :
         /\ \A i \in DOMAIN Collectors : i <= pc[c] => registered[g][Collectors[i]] = identity[g]
         /\ mine[c].service = identity[g]
              \/ \A name \in Range(Collectors) : registered[g][name] = identity[g]

CleanFit == \A g \in Registries : clean[g] => CleanAt(g)

GoInv == GoTypeOK /\ CallsFit /\ MakersFit /\ CleanFit

-----------------------------------------------------------------------------
(* Names.                                                                  *)

\* A trimmed service is none of the other values.
LEMMA TrimmedFacts ==
    /\ Trimmed \subseteq Services
    /\ None \notin Trimmed /\ Foreign \notin Trimmed /\ Blank \notin Trimmed
    /\ None # Foreign
    /\ \A s \in Services : TrimSpace(s) \in Trimmed \cup {Blank}
  BY GoInstallAssumption DEF Trimmed, TrimSpace, None, Foreign

\* The collectors are registered each once, build_info first and process last.
LEMMA CollectorFacts ==
    /\ Len(Collectors) \in Nat /\ Len(Collectors) > 1
    /\ DOMAIN Collectors = 1..Len(Collectors)
    /\ \A i \in DOMAIN Collectors : Collectors[i] \in Range(Collectors)
    /\ \A name \in Range(Collectors) : \E i \in DOMAIN Collectors : name = Collectors[i]
    /\ \A i, j \in DOMAIN Collectors : Collectors[i] = Collectors[j] => i = j
    /\ "build_info" \in Range(Collectors) /\ "process" \in Range(Collectors)
    /\ Collectors[1] = "build_info" /\ Collectors[Len(Collectors)] = "process"
  <1>1. Len(Collectors) \in Nat /\ DOMAIN Collectors = 1..Len(Collectors)
    BY GoInstallAssumption
  <1>2. \A i, j \in DOMAIN Collectors : Collectors[i] = Collectors[j] => i = j
    BY GoInstallAssumption DEF IsInjective
  <1> QED
    BY <1>1, <1>2, GoInstallAssumption DEF Range

-----------------------------------------------------------------------------
(* Each step keeps the invariant.                                          *)

\* A call under way has a registry and a trimmed service.
LEMMA UnderWay ==
    ASSUME CallsFit, NEW c \in Calls, pc[c] \in Entered..Done
    PROVE  mine[c].reg \in Registries /\ mine[c].service \in Trimmed
  <1>1. pc[c] # Idle
    BY CollectorFacts DEF Entered, Done, Idle
  <1> QED
    BY <1>1, Zenon DEF CallsFit

\* Each step keeps the types.
LEMMA GoTypeStep ==
    ASSUME GoTypeOK, CallsFit, [Next]_vars
    PROVE  GoTypeOK'
  <1> USE TrimmedFacts, CollectorFacts DEF GoTypeOK, Idle, Entered, Done, Failed
  <1>1. ASSUME NEW c \in Calls, NEW g \in Registries, NEW s \in Services, Call(c, g, s) PROVE GoTypeOK'
    <2>1. TrimSpace(s) \in Trimmed \cup {Blank}
      OBVIOUS
    <2>3. mine' \in [Calls -> [reg : Registries \cup {None}, service : Trimmed \cup {Blank}]]
      BY <1>1, <2>1 DEF Call
    <2>4. clean' \in [Registries -> BOOLEAN]
      <3> DEFINE b == clean[g] /\ ~\E d \in Calls : Running(d) /\ mine[d].reg = g
      <3>1. clean' = [clean EXCEPT ![g] = b]
        BY <1>1 DEF Call
      <3>2. b \in BOOLEAN
        OBVIOUS
      <3> HIDE DEF b
      <3> QED
        BY <3>1, <3>2
    <2>5. pc' \in [Calls -> Idle..Failed]
      BY <1>1 DEF Call
    <2> QED
      BY <1>1, <2>3, <2>4, <2>5 DEF Call
  <1>2. ASSUME NEW c \in Calls, RecordIdentity(c) PROVE GoTypeOK'
    <2>1. mine[c].reg \in Registries /\ mine[c].service \in Trimmed
      BY <1>2 DEF RecordIdentity, CallsFit
    <2>2. FirstService(identity[mine[c].reg], mine[c].service) \in Trimmed \cup {None}
      BY <2>1 DEF FirstService
    <2>3. identity' \in [Registries -> Trimmed \cup {None}]
      BY <1>2, <2>1, <2>2 DEF RecordIdentity
    <2>4. warned' \subseteq Registries \X Trimmed
      BY <1>2, <2>1 DEF RecordIdentity
    <2>5. pc' \in [Calls -> Idle..Failed]
      BY <1>2 DEF RecordIdentity
    <2> QED
      BY <1>2, <2>3, <2>4, <2>5 DEF RecordIdentity
  <1>3. ASSUME NEW c \in Calls, Register(c) PROVE GoTypeOK'
    <2> DEFINE g == mine[c].reg
               name == Collectors[pc[c] + 1]
    <2>1. pc[c] \in 0..(Len(Collectors) - 1) /\ g \in Registries /\ mine[c].service \in Trimmed
      <3>1. pc[c] \in 0..(Len(Collectors) - 1)
        BY <1>3 DEF Register
      <3> QED
        BY SMTT(20), <3>1 DEF CallsFit
    <2>2. name \in Range(Collectors)
      <3>1. pc[c] + 1 \in DOMAIN Collectors
        BY <2>1
      <3> QED
        BY <3>1
    <2>3. Reused(registered[g][name], mine[c].service) \in Trimmed \cup {None, Foreign}
      BY <2>1, <2>2 DEF Reused
    <2>4. registered' = [registered EXCEPT ![g][name] = Reused(registered[g][name], mine[c].service)]
      BY <1>3 DEF Register
    <2>5. registered' \in [Registries -> [Range(Collectors) -> Trimmed \cup {None, Foreign}]]
      <3> HIDE DEF g, name
      <3> QED
        BY <2>1, <2>2, <2>3, <2>4
    <2>6. isNew' \subseteq Calls
      BY <1>3 DEF Register
    <2>7. pc' \in [Calls -> Idle..Failed]
      BY <1>3 DEF Register
    <2> QED
      BY <1>3, <2>5, <2>6, <2>7 DEF Register
  <1>4. ASSUME NEW c \in Calls, RegisterPanics(c) PROVE GoTypeOK'
    <2>1. pc' \in [Calls -> Idle..Failed]
      BY <1>4 DEF RegisterPanics
    <2>2. clean' \in [Registries -> BOOLEAN]
      BY <1>4 DEF RegisterPanics
    <2> QED
      BY <1>4, <2>1, <2>2 DEF RegisterPanics
  <1>5. ASSUME NEW c \in Calls, SetBuildInfo(c) PROVE GoTypeOK'
    <2>1. mine[c].reg \in Registries /\ mine[c].service \in Trimmed
      <3>1. pc[c] \in Entered..Done
        BY <1>5 DEF SetBuildInfo
      <3> QED
        BY <3>1, UnderWay
    <2>2. [by |-> c, service |-> mine[c].service] \in [by : Calls, service : Trimmed]
      BY <2>1
    <2>3. samples' \in [Registries -> SUBSET [by : Calls, service : Trimmed]]
      <3> DEFINE e == [by |-> c, service |-> mine[c].service]
             g == mine[c].reg
      <3>1. samples' = samples \/ samples' = [samples EXCEPT ![g] = samples[g] \cup {e}]
        BY <1>5 DEF SetBuildInfo
      <3>2. g \in Registries /\ {e} \subseteq [by : Calls, service : Trimmed]
        BY <2>1, <2>2
      <3>3. samples \in [Registries -> SUBSET [by : Calls, service : Trimmed]]
        OBVIOUS
      <3> HIDE DEF e, g, GoTypeOK
      <3> QED
        BY <3>1, <3>2, <3>3
    <2>4. pc' \in [Calls -> Idle..Failed]
      BY <1>5 DEF SetBuildInfo
    <2> QED
      BY <1>5, <2>3, <2>4 DEF SetBuildInfo
  <1>6. ASSUME NEW c \in Calls, Emit(c) PROVE GoTypeOK'
    <2>1. mine[c].reg \in Registries /\ HandleService(c) \in Trimmed
      BY <1>6 DEF Emit, CallsFit, HandleService
    <2>2. emitted' \in [Registries -> SUBSET Trimmed]
      BY <1>6, <2>1 DEF Emit
    <2> QED
      BY <1>6, <2>2 DEF Emit
  <1>7. ASSUME NEW g \in Registries, NEW name \in Range(Collectors), HostUnregisters(g, name)
        PROVE  GoTypeOK'
    <2>1. registered' \in [Registries -> [Range(Collectors) -> Trimmed \cup {None, Foreign}]]
      BY <1>7 DEF HostUnregisters
    <2> QED
      BY <1>7, <2>1 DEF HostUnregisters
  <1>8. CASE UNCHANGED vars
    BY <1>8 DEF vars
  <1> HIDE DEF GoTypeOK
  <1> QED
    BY <1>1, <1>2, <1>3, <1>4, <1>5, <1>6, <1>7, <1>8 DEF Next, Step

\* A call that runs has its registry and its service.
LEMMA CallsStep ==
    ASSUME GoTypeOK, CallsFit, [Next]_vars
    PROVE  CallsFit'
  <1> USE TrimmedFacts, CollectorFacts DEF GoTypeOK, Idle, Entered, Done, Failed
  <1>1. ASSUME NEW c \in Calls, NEW g \in Registries, NEW s \in Services, Call(c, g, s) PROVE CallsFit'
    <2>1. TrimSpace(s) \in Trimmed \cup {Blank}
      OBVIOUS
    <2>2. /\ pc[c] = Idle /\ pc'[c] = (IF TrimSpace(s) = Blank THEN Failed ELSE Entered)
          /\ mine'[c].reg = g /\ mine'[c].service = TrimSpace(s) /\ isNew' = isNew
          /\ \A d \in Calls : d # c => pc'[d] = pc[d] /\ mine'[d] = mine[d]
      BY <1>1 DEF Call
    <2> QED
      BY <2>1, <2>2 DEF CallsFit
  <1>2. ASSUME NEW c \in Calls, RecordIdentity(c) PROVE CallsFit'
    BY <1>2 DEF RecordIdentity, CallsFit
  <1>3. ASSUME NEW c \in Calls, Register(c) PROVE CallsFit'
    <2>1. /\ pc[c] \in 0..(Len(Collectors) - 1) /\ pc'[c] = pc[c] + 1
          /\ \A d \in Calls : d # c => pc'[d] = pc[d]
      BY <1>3 DEF Register
    <2>2. /\ mine' = mine
          /\ mine[c].service \in Trimmed /\ mine[c].reg \in Registries
      <3>1. mine' = mine
        BY <1>3 DEF Register
      <3>2. pc[c] \in Entered..Done
        BY <2>1
      <3> QED
        BY <3>1, <3>2, UnderWay
    <2>3. \A d \in isNew' : d \in isNew \/ d = c
      BY <1>3 DEF Register
    <2> QED
      BY <2>1, <2>2, <2>3 DEF CallsFit
  <1>4. ASSUME NEW c \in Calls, RegisterPanics(c) PROVE CallsFit'
    BY <1>4 DEF RegisterPanics, CallsFit
  <1>5. ASSUME NEW c \in Calls, SetBuildInfo(c) PROVE CallsFit'
    BY <1>5 DEF SetBuildInfo, CallsFit
  <1>6. ASSUME UNCHANGED <<pc, mine, isNew>> PROVE CallsFit'
    BY <1>6 DEF CallsFit
  <1>7. ASSUME NEW c \in Calls, Emit(c) PROVE CallsFit'
    BY <1>6, <1>7 DEF Emit
  <1>8. ASSUME NEW g \in Registries, NEW name \in Range(Collectors), HostUnregisters(g, name)
        PROVE  CallsFit'
    BY <1>6, <1>8 DEF HostUnregisters
  <1>9. CASE UNCHANGED vars
    BY <1>6, <1>9 DEF vars
  <1> HIDE DEF GoTypeOK
  <1> QED
    BY <1>1, <1>2, <1>3, <1>4, <1>5, <1>7, <1>8, <1>9 DEF Next, Step

\* What a registration changes.
LEMMA RegisterEffect ==
    ASSUME GoTypeOK, CallsFit, NEW c \in Calls, Register(c),
           NEW g, g = mine[c].reg, NEW name, name = Collectors[pc[c] + 1]
    PROVE  /\ pc[c] \in 0..(Len(Collectors) - 1) /\ pc'[c] = pc[c] + 1
           /\ \A d \in Calls : d # c => pc'[d] = pc[d]
           /\ UNCHANGED <<mine, identity, samples, clean>>
           /\ g \in Registries /\ mine[c].service \in Trimmed
           /\ pc[c] + 1 \in DOMAIN Collectors /\ name \in Range(Collectors)
           /\ registered[g][name] \in Trimmed \cup {None}
           /\ registered'[g][name] = Reused(registered[g][name], mine[c].service)
           /\ \A h \in Registries : \A n \in Range(Collectors) :
                h # g \/ n # name => registered'[h][n] = registered[h][n]
           /\ isNew' = IF name = "build_info" /\ registered[g][name] = None
                       THEN isNew \cup {c} ELSE isNew
  <1>1. /\ pc[c] \in 0..(Len(Collectors) - 1)
        /\ UNCHANGED <<mine, identity, samples, clean>>
        /\ pc' = [pc EXCEPT ![c] = pc[c] + 1]
        /\ registered[g][name] # Foreign
        /\ registered' = [registered EXCEPT ![g][name] =
                              Reused(registered[g][name], mine[c].service)]
        /\ isNew' = IF name = "build_info" /\ registered[g][name] = None
                    THEN isNew \cup {c} ELSE isNew
    BY DEF Register
  <1>2. pc'[c] = pc[c] + 1 /\ \A d \in Calls : d # c => pc'[d] = pc[d]
    BY <1>1 DEF GoTypeOK
  <1>3. pc[c] + 1 \in DOMAIN Collectors /\ pc[c] \in Entered..Done
    BY <1>1, CollectorFacts DEF Entered, Done
  <1>4. name \in Range(Collectors)
    BY <1>3, CollectorFacts
  <1>5. g \in Registries /\ mine[c].service \in Trimmed
    BY <1>3, UnderWay
  <1>6. registered \in [Registries -> [Range(Collectors) -> Trimmed \cup {None, Foreign}]]
    BY DEF GoTypeOK
  <1>7. /\ registered'[g][name] = Reused(registered[g][name], mine[c].service)
        /\ \A h \in Registries : \A n \in Range(Collectors) :
             h # g \/ n # name => registered'[h][n] = registered[h][n]
    BY <1>1, <1>4, <1>5, <1>6
  <1>8. registered[g][name] \in Trimmed \cup {None}
    BY <1>1, <1>4, <1>5, <1>6
  <1> QED
    BY <1>1, <1>2, <1>3, <1>4, <1>5, <1>7, <1>8

\* A step that makes no build_info gauge and sets none keeps the makers.
LEMMA MakersUnmoved ==
    ASSUME GoTypeOK, CallsFit, MakersFit, UNCHANGED <<mine, isNew, samples>>,
           \A d \in Calls : pc'[d] = Done <=> pc[d] = Done,
           \A h \in Registries : registered'[h]["build_info"] = registered[h]["build_info"],
           \A d \in Calls : pc'[d] \in 1..Done =>
               mine[d].reg \in Registries /\ registered[mine[d].reg]["build_info"] \in Trimmed
    PROVE  MakersFit'
  <1>1. \A d \in Calls : d \in isNew => mine[d].reg \in Registries
    BY CollectorFacts DEF CallsFit, Idle, Failed, Done
  <1>2. \A h \in Registries : \A b \in samples[h] : b.by \in Calls
    BY DEF GoTypeOK
  <1>3. \A d \in Calls : d \in isNew => registered'[mine[d].reg]["build_info"] = mine[d].service
    BY <1>1 DEF MakersFit
  <1>4. \A h \in Registries : \A b \in samples[h] :
          mine[b.by].reg = h /\ b.by \in isNew /\ pc'[b.by] = Done /\ b.service = mine[b.by].service
    BY <1>2 DEF MakersFit
  <1>5. \A d \in Calls : pc'[d] \in 1..Done => registered'[mine[d].reg]["build_info"] \in Trimmed
    OBVIOUS
  <1> QED
    BY <1>3, <1>4, <1>5 DEF MakersFit

\* The maker of build_info stays the only one.
LEMMA MakersStep ==
    ASSUME GoTypeOK, CallsFit, MakersFit, [Next]_vars
    PROVE  MakersFit'
  <1> USE TrimmedFacts, CollectorFacts DEF Idle, Entered, Done, Failed
  <1>1. ASSUME NEW c \in Calls, NEW g \in Registries, NEW s \in Services, Call(c, g, s)
        PROVE  MakersFit'
    <2>1. /\ pc[c] = Idle /\ pc'[c] \in {Failed, Entered}
          /\ \A d \in Calls : d # c => pc'[d] = pc[d] /\ mine'[d] = mine[d]
          /\ UNCHANGED <<isNew, registered, samples>>
      BY <1>1 DEF Call, GoTypeOK
    <2>2. c \notin isNew
      BY <2>1 DEF CallsFit
    <2>3. \A d \in isNew : d \in Calls /\ mine'[d] = mine[d] /\ pc'[d] = pc[d]
      BY <2>1, <2>2 DEF GoTypeOK
    <2> QED
      BY <2>1, <2>2, <2>3 DEF MakersFit
  <1>2. ASSUME NEW c \in Calls, RecordIdentity(c) PROVE MakersFit'
    <2>1. /\ pc[c] = Entered /\ pc'[c] = 0
          /\ \A d \in Calls : d # c => pc'[d] = pc[d]
          /\ UNCHANGED <<mine, isNew, registered, samples>>
      BY <1>2 DEF RecordIdentity, GoTypeOK
    <2>2. /\ \A d \in Calls : pc'[d] = Done <=> pc[d] = Done
          /\ \A d \in Calls : pc'[d] \in 1..Done => pc[d] \in 1..Done
      BY <2>1
    <2>3. \A d \in Calls : pc'[d] \in 1..Done =>
            mine[d].reg \in Registries /\ registered[mine[d].reg]["build_info"] \in Trimmed
      BY <2>2 DEF MakersFit, CallsFit
    <2> QED
      BY <2>1, <2>2, <2>3, MakersUnmoved
  <1>3. ASSUME NEW c \in Calls, Register(c) PROVE MakersFit'
    <2>1. PICK g : g = mine[c].reg
      OBVIOUS
    <2>2. PICK name : name = Collectors[pc[c] + 1]
      OBVIOUS
    <2>3. /\ pc[c] \in 0..(Len(Collectors) - 1) /\ pc'[c] = pc[c] + 1
          /\ \A d \in Calls : d # c => pc'[d] = pc[d]
          /\ UNCHANGED <<mine, samples>>
          /\ g \in Registries /\ mine[c].service \in Trimmed
          /\ pc[c] + 1 \in DOMAIN Collectors /\ name \in Range(Collectors)
          /\ registered[g][name] \in Trimmed \cup {None}
          /\ registered'[g][name] = Reused(registered[g][name], mine[c].service)
          /\ \A h \in Registries : \A n \in Range(Collectors) :
               h # g \/ n # name => registered'[h][n] = registered[h][n]
          /\ isNew' = IF name = "build_info" /\ registered[g][name] = None
                      THEN isNew \cup {c} ELSE isNew
      BY <1>3, <2>1, <2>2, RegisterEffect
    <2>4. ASSUME isNew' = isNew,
                 \A h \in Registries : registered'[h]["build_info"] = registered[h]["build_info"],
                 pc[c] = 0 => registered[g]["build_info"] \in Trimmed
          PROVE  MakersFit'
      <3>1. \A d \in Calls : pc'[d] \in 1..Done =>
              mine[d].reg \in Registries /\ registered[mine[d].reg]["build_info"] \in Trimmed
        BY SMTT(20), <2>1, <2>3, <2>4 DEF MakersFit, CallsFit
      <3>2. \A d \in Calls : pc'[d] = Done <=> pc[d] = Done
        BY <2>3
      <3> QED
        BY <2>3, <2>4, <3>1, <3>2, MakersUnmoved
    <2>5. CASE name # "build_info"
      <3>1. pc[c] # 0
        BY <2>2, <2>5
      <3> QED
        BY <2>3, <2>4, <2>5, <3>1
    <2>6. CASE name = "build_info" /\ registered[g][name] # None
      <3>1. registered[g]["build_info"] \in Trimmed /\ isNew' = isNew
        BY <2>3, <2>6
      <3>2. registered'[g]["build_info"] = registered[g]["build_info"]
        BY <2>3, <2>6 DEF Reused
      <3>3. \A h \in Registries : registered'[h]["build_info"] = registered[h]["build_info"]
        BY <2>3, <3>2
      <3>4. pc[c] = 0 => registered[g]["build_info"] \in Trimmed
        BY <3>1
      <3>5. isNew' = isNew
        BY <3>1
      <3> QED
        BY <2>4, <3>3, <3>4, <3>5
    <2>7. CASE name = "build_info" /\ registered[g][name] = None
      <3>1. pc[c] = 0
        <4>1. 1 \in DOMAIN Collectors /\ pc[c] + 1 \in DOMAIN Collectors
          BY <2>3
        <4>2. Collectors[pc[c] + 1] = Collectors[1]
          BY <2>2, <2>7
        <4>3. pc[c] + 1 = 1
          BY <4>1, <4>2
        <4> QED
          BY <2>3, <4>3
      <3>2. /\ registered[g]["build_info"] = None /\ registered'[g]["build_info"] = mine[c].service
            /\ isNew' = isNew \cup {c}
        BY <2>3, <2>7 DEF Reused
      <3>3. \A d \in isNew : d \in Calls /\ mine[d].reg # g /\ mine[d].reg \in Registries
        BY <3>2 DEF MakersFit, CallsFit, GoTypeOK
      <3>4. \A h \in Registries : h # g => registered'[h]["build_info"] = registered[h]["build_info"]
        BY <2>3
      <3>5. \A d \in Calls : pc'[d] \in 1..Done /\ d # c =>
              mine[d].reg \in Registries /\ registered[mine[d].reg]["build_info"] \in Trimmed
        BY <2>3 DEF MakersFit, CallsFit
      <3>6. \A h \in Registries : \A b \in samples[h] : b.by # c /\ b.by \in Calls
        BY <2>3 DEF MakersFit, GoTypeOK
      <3>7. \A d \in Calls : pc'[d] = Done <=> pc[d] = Done
        BY <2>3
      <3> QED
        BY <2>1, <2>3, <3>2, <3>3, <3>4, <3>5, <3>6, <3>7 DEF MakersFit
    <2> QED
      BY <2>5, <2>6, <2>7
  <1>4. ASSUME NEW c \in Calls, RegisterPanics(c) PROVE MakersFit'
    <2>1. /\ pc[c] \in 0..(Len(Collectors) - 1) /\ pc'[c] = Failed
          /\ \A d \in Calls : d # c => pc'[d] = pc[d]
          /\ UNCHANGED <<mine, isNew, registered, samples>>
      BY <1>4 DEF RegisterPanics, GoTypeOK
    <2>2. /\ \A d \in Calls : pc'[d] = Done <=> pc[d] = Done
          /\ \A d \in Calls : pc'[d] \in 1..Done => pc[d] \in 1..Done
      BY <2>1
    <2>3. \A d \in Calls : pc'[d] \in 1..Done =>
            mine[d].reg \in Registries /\ registered[mine[d].reg]["build_info"] \in Trimmed
      BY <2>2 DEF MakersFit, CallsFit
    <2> QED
      BY <2>1, <2>2, <2>3, MakersUnmoved
  <1>5. ASSUME NEW c \in Calls, SetBuildInfo(c) PROVE MakersFit'
    <2>1. /\ pc[c] = Len(Collectors) /\ pc'[c] = Done
          /\ \A d \in Calls : d # c => pc'[d] = pc[d]
          /\ UNCHANGED <<mine, isNew, registered>>
      BY <1>5 DEF SetBuildInfo, GoTypeOK
    <2>2. PICK e : e = [by |-> c, service |-> mine[c].service]
      OBVIOUS
    <2>3. mine[c].reg \in Registries
      <3>1. pc[c] \in Entered..Done
        BY <2>1
      <3> QED
        BY <3>1, UnderWay
    <2>4. /\ samples'[mine[c].reg] = IF c \in isNew THEN samples[mine[c].reg] \cup {e}
                                     ELSE samples[mine[c].reg]
          /\ \A h \in Registries : h # mine[c].reg => samples'[h] = samples[h]
      <3>1. PICK g : g = mine[c].reg
        OBVIOUS
      <3>2. samples' = IF c \in isNew THEN [samples EXCEPT ![g] = samples[g] \cup {e}] ELSE samples
        BY <1>5, <2>2, <3>1 DEF SetBuildInfo, SetsBuildInfo
      <3>3. PICK S : samples \in [Registries -> S]
        BY DEF GoTypeOK
      <3>4. g \in Registries
        BY <2>3, <3>1
      <3>5. CASE c \in isNew
        <4>1. samples' = [samples EXCEPT ![g] = samples[g] \cup {e}]
          BY <3>2, <3>5
        <4>2. samples'[g] = samples[g] \cup {e} /\ \A h \in Registries : h # g => samples'[h] = samples[h]
          BY <3>3, <3>4, <4>1
        <4> QED
          BY <3>1, <3>5, <4>2
      <3>6. CASE c \notin isNew
        BY <3>1, <3>2, <3>6
      <3> QED
        BY <3>5, <3>6
    <2>5. \A d \in Calls : pc'[d] \in 1..Done => pc[d] \in 1..Done
      BY <2>1
    <2>6. ASSUME NEW h \in Registries, NEW b \in samples'[h]
          PROVE  b \in samples[h] \/ (b = e /\ h = mine[c].reg /\ c \in isNew)
      <3>1. CASE h # mine[c].reg
        BY <2>4, <3>1
      <3>2. CASE h = mine[c].reg
        BY <2>4, <3>2
      <3> QED
        BY <3>1, <3>2
    <2>7. \A h \in Registries : \A b \in samples'[h] :
            mine[b.by].reg = h /\ b.by \in isNew /\ pc'[b.by] = Done /\ b.service = mine[b.by].service
      <3>1. \A h \in Registries : \A b \in samples[h] : b.by \in Calls
        BY DEF GoTypeOK
      <3> QED
        BY <2>1, <2>2, <2>6, <3>1 DEF MakersFit
    <2>8. \A d \in Calls : d \in isNew /\ pc'[d] = Done =>
            [by |-> d, service |-> mine[d].service] \in samples'[mine[d].reg]
      <3>1. \A d \in Calls : d \in isNew => mine[d].reg \in Registries
        BY DEF CallsFit
      <3>2. \A h \in Registries : samples[h] \subseteq samples'[h]
        BY <2>3, <2>4
      <3> QED
        BY <2>1, <2>2, <2>4, <3>1, <3>2 DEF MakersFit
    <2> QED
      BY <2>1, <2>5, <2>7, <2>8 DEF MakersFit
  <1>6. ASSUME UNCHANGED <<pc, mine, isNew, registered, samples>> PROVE MakersFit'
    BY <1>6 DEF MakersFit
  <1>7. ASSUME NEW c \in Calls, Emit(c) PROVE MakersFit'
    BY <1>6, <1>7 DEF Emit
  <1>8. ASSUME NEW g \in Registries, NEW name \in Range(Collectors), HostUnregisters(g, name)
        PROVE  MakersFit'
    <2>1. /\ registered[g][name] = Foreign /\ registered'[g][name] = None
          /\ \A h \in Registries : \A n \in Range(Collectors) :
               h # g \/ n # name => registered'[h][n] = registered[h][n]
          /\ UNCHANGED <<pc, mine, isNew, samples>>
      BY <1>8 DEF HostUnregisters, GoTypeOK
    <2>2. \A h \in Registries :
            /\ registered'[h]["build_info"] \in Trimmed => registered[h]["build_info"] \in Trimmed
            /\ registered[h]["build_info"] \in Trimmed =>
                 registered'[h]["build_info"] = registered[h]["build_info"]
      BY <2>1
    <2>3. \A d \in Calls : d \in isNew \/ pc[d] \in 1..Done => mine[d].reg \in Registries
      BY DEF CallsFit
    <2>4. \A d \in Calls : d \in isNew => mine[d].service \in Trimmed
      BY DEF CallsFit
    <2> QED
      BY <2>1, <2>2, <2>3, <2>4 DEF MakersFit
  <1>9. CASE UNCHANGED vars
    BY <1>6, <1>9 DEF vars
  <1> QED
    BY <1>1, <1>2, <1>3, <1>4, <1>5, <1>7, <1>8, <1>9 DEF Next, Step

\* A registry no step touches stays as it is.
LEMMA CleanUntouched ==
    ASSUME NEW g \in Registries, CleanAt(g),
           registered'[g] = registered[g], identity'[g] = identity[g],
           \A d \in Calls : (mine'[d].reg = g /\ Running(d)') => (mine[d].reg = g /\ Running(d)),
           \A d \in Calls : (mine'[d].reg = g /\ pc'[d] \in 0..Done) <=>
                            (mine[d].reg = g /\ pc[d] \in 0..Done),
           \A d \in Calls : mine[d].reg = g /\ pc[d] \in 0..Done =>
                            mine'[d] = mine[d] /\ (pc'[d] = pc[d] \/ pc[d] = Len(Collectors))
    PROVE  CleanAt(g)'
  <1>1. Recorded(g)' = Recorded(g)
    BY DEF Recorded
  <1>2. \A d \in Recorded(g) : \A i \in DOMAIN Collectors :
          i <= pc'[d] => registered[g][Collectors[i]] = identity[g]
    <2> SUFFICES ASSUME NEW d \in Recorded(g), NEW i \in DOMAIN Collectors, i <= pc'[d]
                 PROVE  registered[g][Collectors[i]] = identity[g]
      OBVIOUS
    <2>1. i <= pc[d]
      BY CollectorFacts DEF Recorded
    <2> QED
      BY <2>1 DEF CleanAt
  <1>3. \A d \in Recorded(g) : mine'[d] = mine[d]
    BY DEF Recorded
  <1>4. \A c, d \in Calls : Running(c)' /\ Running(d)' /\ mine'[c].reg = g /\ mine'[d].reg = g => c = d
    BY DEF CleanAt
  <1> QED
    BY <1>1, <1>2, <1>3, <1>4 DEF CleanAt

\* On a registry whose calls follow each other the first service stays.
LEMMA CleanStep ==
    ASSUME GoTypeOK, CallsFit, CleanFit, [Next]_vars
    PROVE  CleanFit'
  <1> USE TrimmedFacts, CollectorFacts DEF Idle, Entered, Done, Failed
  <1>a. SUFFICES ASSUME NEW h \in Registries, clean'[h] PROVE CleanAt(h)'
    BY DEF CleanFit
  <1>b. ASSUME clean[h] PROVE CleanAt(h)
    BY <1>b DEF CleanFit
  <1>c. ASSUME clean' = clean PROVE CleanAt(h)
    <2>1. clean[h]
      BY <1>a, <1>c
    <2> QED
      BY <1>b, <2>1
  <1>1. ASSUME NEW c \in Calls, NEW g \in Registries, NEW s \in Services, Call(c, g, s)
        PROVE  CleanAt(h)'
    <2>1. /\ pc[c] = Idle /\ pc'[c] \in {Failed, Entered} /\ mine'[c].reg = g
          /\ \A d \in Calls : d # c => pc'[d] = pc[d] /\ mine'[d] = mine[d]
          /\ UNCHANGED <<registered, identity>>
      BY <1>1 DEF Call, GoTypeOK
    <2>2. clean[h] /\ (h = g => \A d \in Calls : ~(Running(d) /\ mine[d].reg = g))
      <3> DEFINE alone == ~\E d \in Calls : Running(d) /\ mine[d].reg = g
      <3>1. clean' = [clean EXCEPT ![g] = clean[g] /\ alone]
        BY <1>1 DEF Call
      <3>2. clean \in [Registries -> BOOLEAN] /\ clean'[h]
        BY <1>a DEF GoTypeOK
      <3>3. clean[h] /\ (h = g => alone)
        <4> HIDE DEF alone
        <4>1. CASE h = g
          BY <3>1, <3>2, <4>1
        <4>2. CASE h # g
          BY <3>1, <3>2, <4>2
        <4> QED
          BY <4>1, <4>2
      <3> QED
        BY <3>3
    <2>3. \A d \in Calls : (mine'[d].reg = h /\ pc'[d] \in 0..Done) <=>
                           (mine[d].reg = h /\ pc[d] \in 0..Done)
      BY <2>1
    <2>4. \A d \in Calls : mine[d].reg = h /\ pc[d] \in 0..Done =>
                           mine'[d] = mine[d] /\ pc'[d] = pc[d]
      BY <2>1
    <2>5. CASE h # g
      <3>1. \A d \in Calls : (mine'[d].reg = h /\ Running(d)') => (mine[d].reg = h /\ Running(d))
        BY <2>1, <2>5 DEF Running
      <3> QED
        BY <1>b, <2>1, <2>2, <2>3, <2>4, <3>1, CleanUntouched
    <2>6. CASE h = g
      <3>1. \A d \in Calls : Running(d)' /\ mine'[d].reg = h => d = c
        BY <2>1, <2>2, <2>6 DEF Running
      <3>2. Recorded(h)' = Recorded(h)
        BY <2>3 DEF Recorded
      <3>3. \A d \in Recorded(h) : mine'[d] = mine[d] /\ pc'[d] = pc[d]
        BY <2>4 DEF Recorded
      <3> QED
        BY <1>b, <2>1, <2>2, <3>1, <3>2, <3>3 DEF CleanAt
    <2> QED
      BY <2>5, <2>6
  <1>2. ASSUME NEW c \in Calls, RecordIdentity(c) PROVE CleanAt(h)'
    <2>1. /\ pc[c] = Entered /\ pc'[c] = 0
          /\ \A d \in Calls : d # c => pc'[d] = pc[d]
          /\ UNCHANGED <<mine, registered, clean>>
      BY <1>2 DEF RecordIdentity, GoTypeOK
    <2>2. mine[c].reg \in Registries /\ mine[c].service \in Trimmed
      BY <2>1, UnderWay
    <2>3. /\ identity'[mine[c].reg] = FirstService(identity[mine[c].reg], mine[c].service)
          /\ \A g \in Registries : g # mine[c].reg => identity'[g] = identity[g]
      BY <1>2, <2>2 DEF RecordIdentity, GoTypeOK
    <2>4. CleanAt(h)
      <3>1. clean' = clean
        BY <2>1
      <3> QED
        BY <1>c, <3>1
    <2>5. \A d \in Calls : Running(d)' <=> Running(d)
      BY <2>1 DEF Running
    <2>6. CASE h # mine[c].reg
      <3>1. \A d \in Calls : (mine'[d].reg = h /\ pc'[d] \in 0..Done) <=>
                             (mine[d].reg = h /\ pc[d] \in 0..Done)
        BY <2>1, <2>6
      <3>2. \A d \in Calls : mine[d].reg = h /\ pc[d] \in 0..Done => pc'[d] = pc[d]
        BY <2>1
      <3> QED
        BY <2>1, <2>3, <2>4, <2>5, <2>6, <3>1, <3>2, CleanUntouched
    <2>7. CASE h = mine[c].reg
      <3>1. Recorded(h)' = Recorded(h) \cup {c} /\ c \notin Recorded(h)
        BY <2>1, <2>7 DEF Recorded
      <3>2. \A d \in Recorded(h) : pc[d] = Done /\ d \in Calls /\ d # c /\ pc'[d] = pc[d]
        <4>1. Running(c)
          BY <2>1 DEF Running
        <4>2. \A d \in Calls : d # c /\ mine[d].reg = h => ~Running(d)
          BY <2>4, <2>7, <4>1 DEF CleanAt
        <4> QED
          BY <2>1, <3>1, <4>2 DEF Recorded, Running
      <3>3. \A d \in Calls : \A e \in Calls :
              Running(d)' /\ Running(e)' /\ mine'[d].reg = h /\ mine'[e].reg = h => d = e
        BY <2>1, <2>4, <2>5 DEF CleanAt
      <3>4. \A i \in DOMAIN Collectors : ~(i <= pc'[c])
        BY <2>1
      <3>5. CASE identity[h] = None
        <4>1. identity'[h] = mine[c].service /\ identity'[h] # None
          BY <2>2, <2>3, <2>7, <3>5 DEF FirstService
        <4>2. Recorded(h)' = {c}
          BY <2>4, <3>1, <3>5 DEF CleanAt
        <4>3. \A name \in Range(Collectors) : registered'[h][name] \in {None, Foreign, identity'[h]}
          BY <2>1, <2>4, <3>5 DEF CleanAt
        <4> QED
          BY <2>1, <3>3, <3>4, <4>1, <4>2, <4>3 DEF CleanAt
      <3>6. CASE identity[h] # None
        <4>1. identity'[h] = identity[h]
          BY <2>3, <2>7, <3>6 DEF FirstService
        <4>2. PICK e \in Recorded(h) : TRUE
          BY <2>4, <3>6 DEF CleanAt
        <4>3. \A i \in DOMAIN Collectors : registered[h][Collectors[i]] = identity[h]
          BY <2>4, <3>2, <4>2 DEF CleanAt
        <4>4. \A name \in Range(Collectors) : registered'[h][name] = identity'[h]
          BY <2>1, <4>1, <4>3
        <4> QED
          BY <2>1, <3>1, <3>3, <3>6, <4>1, <4>4 DEF CleanAt
      <3> QED
        BY <3>5, <3>6
    <2> QED
      BY <2>6, <2>7
  <1>3. ASSUME NEW c \in Calls, Register(c) PROVE CleanAt(h)'
    <2>1. PICK g : g = mine[c].reg
      OBVIOUS
    <2>2. PICK name : name = Collectors[pc[c] + 1]
      OBVIOUS
    <2>3. /\ pc[c] \in 0..(Len(Collectors) - 1) /\ pc'[c] = pc[c] + 1
          /\ \A d \in Calls : d # c => pc'[d] = pc[d]
          /\ UNCHANGED <<mine, identity, clean>>
          /\ g \in Registries /\ mine[c].service \in Trimmed
          /\ pc[c] + 1 \in DOMAIN Collectors /\ name \in Range(Collectors)
          /\ registered[g][name] \in Trimmed \cup {None}
          /\ registered'[g][name] = Reused(registered[g][name], mine[c].service)
          /\ \A k \in Registries : \A n \in Range(Collectors) :
               k # g \/ n # name => registered'[k][n] = registered[k][n]
      BY <1>3, <2>1, <2>2, RegisterEffect
    <2>4. CleanAt(h)
      <3>1. clean' = clean
        BY <2>3
      <3> QED
        BY <1>c, <3>1
    <2>5. \A d \in Calls : /\ Running(d)' <=> Running(d)
                           /\ pc'[d] \in 0..Done <=> pc[d] \in 0..Done
      BY <2>3 DEF Running
    <2>6. Recorded(h)' = Recorded(h)
      BY <2>3, <2>5 DEF Recorded
    <2>7. \A d \in Calls : \A e \in Calls :
            Running(d)' /\ Running(e)' /\ mine'[d].reg = h /\ mine'[e].reg = h => d = e
      BY <2>3, <2>4, <2>5 DEF CleanAt
    <2>8. CASE h # g
      <3>1. \A n \in Range(Collectors) : registered'[h][n] = registered[h][n]
        BY <2>3, <2>8
      <3>2. \A d \in Recorded(h) : pc'[d] = pc[d]
        BY <2>1, <2>3, <2>8 DEF Recorded
      <3> QED
        BY <2>3, <2>4, <2>6, <2>7, <3>1, <3>2 DEF CleanAt
    <2>9. CASE h = g
      <3>1. c \in Recorded(h)
        BY <2>1, <2>3, <2>9 DEF Recorded
      <3>2. identity[h] # None /\ identity[h] # Foreign
        BY <2>4, <3>1 DEF CleanAt, GoTypeOK
      <3>3. registered'[h][name] = identity[h]
        <4>1. registered[h][name] \in {None, identity[h]}
          BY <2>3, <2>4, <2>9 DEF CleanAt
        <4>2. CASE registered[h][name] = None
          <5>1. mine[c].service = identity[h]
            BY <2>3, <2>4, <3>1, <3>2, <4>2 DEF CleanAt
          <5> QED
            BY <2>3, <2>9, <4>2, <5>1 DEF Reused
        <4>3. CASE registered[h][name] # None
          BY <2>3, <2>9, <4>1, <4>3 DEF Reused
        <4> QED
          BY <4>2, <4>3
      <3>4. \A n \in Range(Collectors) :
              registered'[h][n] = registered[h][n] \/ registered'[h][n] = identity[h]
        BY <2>3, <3>3
      <3>5. ASSUME NEW d \in Recorded(h), NEW i \in DOMAIN Collectors, i <= pc'[d]
            PROVE  registered'[h][Collectors[i]] = identity[h]
        <4>1. Collectors[i] \in Range(Collectors) /\ d \in Calls
          BY DEF Recorded
        <4>2. CASE i <= pc[d]
          BY <2>4, <3>4, <4>1, <4>2 DEF CleanAt
        <4>3. CASE ~(i <= pc[d])
          <5>1. d = c /\ i = pc[c] + 1
            BY <2>3, <3>5, <4>1, <4>3 DEF Recorded
          <5> QED
            BY <2>2, <3>3, <5>1
        <4> QED
          BY <4>2, <4>3
      <3>6. \A d \in Recorded(h) :
              \/ mine[d].service = identity[h]
              \/ \A n \in Range(Collectors) : registered'[h][n] = identity[h]
        BY <2>4, <3>4 DEF CleanAt
      <3>7. \A n \in Range(Collectors) : registered'[h][n] \in {None, Foreign, identity[h]}
        BY <2>4, <3>4 DEF CleanAt
      <3> QED
        BY <2>3, <2>4, <2>6, <2>7, <3>1, <3>2, <3>5, <3>6, <3>7 DEF CleanAt
    <2> QED
      BY <2>8, <2>9
  <1>4. ASSUME NEW c \in Calls, RegisterPanics(c) PROVE CleanAt(h)'
    <2>1. /\ pc[c] \in 0..(Len(Collectors) - 1) /\ pc'[c] = Failed
          /\ \A d \in Calls : d # c => pc'[d] = pc[d]
          /\ UNCHANGED <<mine, identity, registered>>
      BY <1>4 DEF RegisterPanics, GoTypeOK
    <2>2. h # mine[c].reg /\ clean[h]
      <3>1. clean' = [clean EXCEPT ![mine[c].reg] = FALSE]
        BY <1>4 DEF RegisterPanics
      <3>2. clean \in [Registries -> BOOLEAN] /\ clean'[h]
        BY <1>a DEF GoTypeOK
      <3> HIDE DEF Idle, Entered, Done, Failed
      <3> QED
        BY <3>1, <3>2
    <2>3. \A d \in Calls : mine[d].reg = h => pc'[d] = pc[d] /\ (Running(d)' <=> Running(d))
      BY <2>1, <2>2 DEF Running
    <2> QED
      BY <1>b, <2>1, <2>2, <2>3, CleanUntouched
  <1>5. ASSUME NEW c \in Calls, SetBuildInfo(c) PROVE CleanAt(h)'
    <2>1. /\ pc[c] = Len(Collectors) /\ pc'[c] = Done
          /\ \A d \in Calls : d # c => pc'[d] = pc[d]
          /\ UNCHANGED <<mine, identity, registered, clean>>
      BY <1>5 DEF SetBuildInfo, GoTypeOK
    <2>2. \A d \in Calls : /\ pc'[d] \in 0..Done <=> pc[d] \in 0..Done
                           /\ Running(d)' => Running(d)
                           /\ pc'[d] = pc[d] \/ pc[d] = Len(Collectors)
      BY <2>1 DEF Running
    <2>3. CleanAt(h)
      <3>1. clean' = clean
        BY <2>1
      <3> QED
        BY <1>c, <3>1
    <2>4. \A d \in Calls : (mine'[d].reg = h /\ Running(d)') => (mine[d].reg = h /\ Running(d))
      BY <2>1, <2>2
    <2> QED
      BY <2>1, <2>2, <2>3, <2>4, CleanUntouched
  <1>6. ASSUME UNCHANGED <<pc, mine, registered, identity, clean>> PROVE CleanAt(h)'
    <2>1. CleanAt(h)
      BY <1>c, <1>6
    <2> QED
      BY <1>6, <2>1 DEF CleanAt, Recorded, Running
  <1>7. ASSUME NEW c \in Calls, Emit(c) PROVE CleanAt(h)'
    BY <1>6, <1>7 DEF Emit
  <1>8. ASSUME NEW g \in Registries, NEW name \in Range(Collectors), HostUnregisters(g, name)
        PROVE  CleanAt(h)'
    <2>1. /\ registered[g][name] = Foreign /\ registered'[g][name] = None
          /\ \A k \in Registries : \A n \in Range(Collectors) :
               k # g \/ n # name => registered'[k][n] = registered[k][n]
          /\ UNCHANGED <<pc, mine, identity, clean>>
      BY <1>8 DEF HostUnregisters, GoTypeOK
    <2>2. CleanAt(h)
      <3>1. clean' = clean
        BY <2>1
      <3> QED
        BY <1>c, <3>1
    <2>3. identity[h] # Foreign
      BY DEF GoTypeOK
    <2>4. Recorded(h)' = Recorded(h) /\ \A d \in Calls : Running(d)' <=> Running(d)
      BY <2>1 DEF Recorded, Running
    <2>5. \A n \in Range(Collectors) :
            /\ registered'[h][n] \in {None, registered[h][n]}
            /\ registered[h][n] = identity[h] => registered'[h][n] = identity[h]
      BY <2>1, <2>3
    <2> QED
      BY <2>1, <2>2, <2>4, <2>5 DEF CleanAt
  <1>9. CASE UNCHANGED vars
    BY <1>6, <1>9 DEF vars
  <1> QED
    BY <1>1, <1>2, <1>3, <1>4, <1>5, <1>7, <1>8, <1>9 DEF Next, Step

\* At the start no call has begun.
LEMMA InitGo == Init => GoInv
  <1> SUFFICES ASSUME Init PROVE GoInv
    OBVIOUS
  <1> USE TrimmedFacts, CollectorFacts DEF Idle, Entered, Done, Failed
  <1>1. registered \in [Registries -> [Range(Collectors) -> {None, Foreign}]]
    <2>1. CASE Conflicts
      BY <2>1 DEF Init
    <2>2. CASE ~Conflicts
      BY <2>2 DEF Init
    <2> QED
      BY <2>1, <2>2
  <1>2. /\ \A c \in Calls : pc[c] = -2
        /\ isNew = {} /\ \A g \in Registries : samples[g] = {} /\ identity[g] = None
    BY DEF Init
  <1>3. GoTypeOK
    BY <1>1 DEF Init, GoTypeOK
  <1>4. CallsFit
    BY <1>2 DEF CallsFit
  <1>5. MakersFit
    BY <1>1, <1>2 DEF MakersFit
  <1>6. CleanFit
    <2>1. \A g \in Registries : Recorded(g) = {}
      BY <1>2 DEF Recorded
    <2>2. \A c \in Calls : ~Running(c)
      BY <1>2 DEF Running
    <2> QED
      BY <1>1, <1>2, <2>1, <2>2 DEF CleanFit, CleanAt
  <1> QED
    BY <1>3, <1>4, <1>5, <1>6 DEF GoInv

\* The invariant the theorems below follow from, for Install in metrics.go.
THEOREM GoInvariant == Spec => []GoInv
  <1>1. GoInv /\ [Next]_vars => GoInv'
    BY GoTypeStep, CallsStep, MakersStep, CleanStep DEF GoInv
  <1> QED
    BY InitGo, <1>1, PTL DEF Spec

\* Every variable has the values the code gives it, and no recorded service, no
\* series and no identity is written otherwise than trimmed (metrics.go:94).
THEOREM GoTypes == Spec => []GoTypeOK
  <1>1. GoInv => GoTypeOK
    BY DEF GoInv
  <1> QED
    BY GoInvariant, <1>1, PTL

-----------------------------------------------------------------------------
(* What the invariant says of the registries.                              *)

\* The samples of a registry are one call's.
LEMMA AtMostOneSample ==
    ASSUME GoInv, NEW g \in Registries
    PROVE  Cardinality(samples[g]) <= 1
  <1>1. \A b \in samples[g] : b \in [by : Calls, service : Trimmed]
    BY DEF GoInv, GoTypeOK
  <1>2. \A a, b \in samples[g] : a.by = b.by /\ a.service = b.service
    BY <1>1 DEF GoInv, MakersFit
  <1>3. \A a, b \in samples[g] : a = b
    BY <1>1, <1>2
  <1>4. samples[g] = {} \/ \E b \in samples[g] : samples[g] = {b}
    BY <1>3
  <1> QED
    BY <1>4, FS_EmptySet, FS_Singleton

\* A second Install never adds a build_info sample, and a registry on which one
\* has returned has its sample, by the call that registered the gauge
\* (metrics.go:130).
THEOREM GoOneBuildInfo == Spec => []OneBuildInfo
  <1>1. GoInv => OneBuildInfo
    <2> SUFFICES ASSUME GoInv PROVE OneBuildInfo
      OBVIOUS
    <2> USE TrimmedFacts, CollectorFacts DEF Idle, Entered, Done, Failed
    <2>1. \A g \in Registries : Cardinality(samples[g]) <= 1
      BY AtMostOneSample
    <2>2. ASSUME AtRest, \A c \in Calls : pc[c] = Failed => mine[c].service = Blank,
                 NEW g \in Registries, InstalledOn(g) # {}
          PROVE  \E c \in InstalledOn(g) : \E b \in samples[g] :
                     b.by = c /\ b.service = registered[g]["build_info"]
      <3>1. PICK c \in Calls : pc[c] = Done /\ mine[c].reg = g
        BY <2>2 DEF InstalledOn
      <3>2. registered[g]["build_info"] \in Trimmed
        BY <3>1 DEF GoInv, MakersFit
      <3>3. PICK d \in Calls : d \in isNew /\ mine[d].reg = g
        BY <3>2 DEF GoInv, MakersFit
      <3>4. pc[d] \in 1..Failed /\ mine[d].service \in Trimmed
        BY <3>3 DEF GoInv, CallsFit
      <3>5. pc[d] # Failed /\ ~Running(d)
        BY <2>2, <3>4 DEF AtRest
      <3>6. pc[d] = Done
        BY <3>4, <3>5 DEF Running
      <3>7. [by |-> d, service |-> mine[d].service] \in samples[g]
        BY <3>3, <3>6 DEF GoInv, MakersFit
      <3>8. registered[g]["build_info"] = mine[d].service
        BY <3>3 DEF GoInv, MakersFit
      <3>9. d \in InstalledOn(g)
        BY <3>3, <3>6 DEF InstalledOn
      <3> QED
        BY <3>7, <3>8, <3>9
    <2> QED
      BY <2>1, <2>2 DEF OneBuildInfo
  <1> QED
    BY GoInvariant, <1>1, PTL

\* On a registry whose calls followed each other and did not panic, the identity
\* recordServiceIdentity keeps is the service of the process metrics and of
\* build_info (service_identity.go:46, metrics.go:112).
THEOREM GoIdentityIsRegistered == Spec => []IdentityIsRegistered
  <1>1. GoInv => IdentityIsRegistered
    <2> SUFFICES ASSUME GoInv, AtRest, NEW g \in Registries, clean[g], InstalledOn(g) # {}
                 PROVE  /\ registered[g]["process"] = identity[g]
                        /\ \A b \in samples[g] : b.service = identity[g]
      BY DEF IdentityIsRegistered
    <2> USE TrimmedFacts, CollectorFacts DEF Idle, Entered, Done, Failed
    <2>1. PICK c \in Calls : pc[c] = Done /\ mine[c].reg = g
      BY DEF InstalledOn
    <2>2. c \in Recorded(g) /\ CleanAt(g)
      BY <2>1 DEF Recorded, GoInv, CleanFit
    <2>3. \A i \in DOMAIN Collectors : registered[g][Collectors[i]] = identity[g]
      BY <2>1, <2>2 DEF CleanAt
    <2>4. registered[g]["process"] = identity[g] /\ registered[g]["build_info"] = identity[g]
      <3>1. 1 \in DOMAIN Collectors /\ Len(Collectors) \in DOMAIN Collectors
        OBVIOUS
      <3> QED
        BY <2>3, <3>1
    <2>5. \A b \in samples[g] : b.service = registered[g]["build_info"]
      <3>1. \A b \in samples[g] : b.by \in Calls
        BY DEF GoInv, GoTypeOK
      <3> QED
        BY <3>1 DEF GoInv, MakersFit
    <2> QED
      BY <2>4, <2>5
  <1> QED
    BY GoInvariant, <1>1, PTL
=============================================================================
