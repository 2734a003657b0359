--------------------------- MODULE PyInstallProofs ---------------------------
(***************************************************************************)
(* Theorems about PyInstall, for every set of calls, apps and names, every *)
(* set of failing steps and every number of concurrent calls; and, for     *)
(* calls that do not overlap, that it implements InstallTxn.               *)
(***************************************************************************)
EXTENDS PyInstall, FiniteSetTheorems, TLAPS

\* The locals of a call that has not begun are well typed.
LEMMA FreshFrameType == FreshFrame \in Frame
  <1>1. (CHOOSE a \in Apps : TRUE) \in Apps
    BY AppsAssumption
  <1>2. (CHOOSE n \in Names : TRUE) \in Names
    BY NamesAssumption
  <1>3. <<CHOOSE n \in Names : TRUE, 0>> \in Keys
    BY <1>2, ParametersAssumption DEF Keys, Seconds
  <1> QED
    BY <1>1, <1>2, <1>3 DEF FreshFrame, Frame

\* Cutting a list to a length gives a list of the same elements.
LEMMA TruncateType ==
    ASSUME NEW S, NEW s \in Seq(S), NEW n \in Nat
    PROVE  Truncate(s, n) \in Seq(S)
  BY DEF Truncate

\* Adding a hook at either end gives a list of hooks.
LEMMA AddHookType ==
    ASSUME NEW s \in Seq(Hooks), NEW c \in Calls, NEW a \in Apps
    PROVE  AddHook(s, c, a) \in Seq(Hooks)
  <1>1. c \in Hooks /\ <<c>> \in Seq(Hooks)
    BY DEF Hooks
  <1>2. Append(s, c) \in Seq(Hooks) /\ <<c>> \o s \in Seq(Hooks)
    BY <1>1
  <1> QED
    BY <1>2 DEF AddHook

\* A call's locals stay locals when a statement assigns to them.
LEMMA FrameChange ==
    ASSUME NEW f \in Frame
    PROVE  /\ \A a \in Apps, n \in Names : [f EXCEPT !.app = a, !.name = n] \in Frame
           /\ \A h \in Seq(Hooks), r \in Seq(Calls) :
                [f EXCEPT !.preHooks = h, !.preRoutes = r] \in Frame
           /\ \A n \in Names \cup {NoName} : [f EXCEPT !.pre = n] \in Frame
           /\ \A x \in {"none", "reused", "registered", "service_swap"} :
                [f EXCEPT !.proc = x] \in Frame
           /\ \A d \in Calls \cup {NoCall} : [f EXCEPT !.prior = d] \in Frame
           /\ \A k \in Keys : [f EXCEPT !.key = k] \in Frame
           /\ \A b \in BOOLEAN : [f EXCEPT !.wasNew = b] \in Frame
           /\ f.app \in Apps /\ f.name \in Names
  <1> USE DEF Frame
  <1>1. \A a \in Apps, n \in Names : [f EXCEPT !.app = a, !.name = n] \in Frame
    OBVIOUS
  <1>2. \A h \in Seq(Hooks), r \in Seq(Calls) :
          [f EXCEPT !.preHooks = h, !.preRoutes = r] \in Frame
    OBVIOUS
  <1>3. \A n \in Names \cup {NoName} : [f EXCEPT !.pre = n] \in Frame
    OBVIOUS
  <1>4. \A x \in {"none", "reused", "registered", "service_swap"} : [f EXCEPT !.proc = x] \in Frame
    OBVIOUS
  <1>5. \A d \in Calls \cup {NoCall} : [f EXCEPT !.prior = d] \in Frame
    OBVIOUS
  <1>6. \A k \in Keys : [f EXCEPT !.key = k] \in Frame
    OBVIOUS
  <1>7. \A b \in BOOLEAN : [f EXCEPT !.wasNew = b] \in Frame
    OBVIOUS
  <1> QED
    BY <1>1, <1>2, <1>3, <1>4, <1>5, <1>6, <1>7

\* Every reachable state is well typed: what the code keeps under _lock,
\* _owned_label_keys_lock and on the apps has the shape the other proofs use.
LEMMA TypeStep == TypeOK /\ [Next]_vars => TypeOK'
  <1> SUFFICES ASSUME TypeOK, [Next]_vars PROVE TypeOK'
    OBVIOUS
  <1> USE DEF TypeOK, Goto, procVars, buildVars, appVars
  <1>1. ASSUME NEW c \in Calls, NEW a \in Apps, NEW n \in Names,
               AlreadyInstalled(c, a, n) \/ Begin(c, a, n)
        PROVE  TypeOK'
    <2>1. [frame[c] EXCEPT !.app = a, !.name = n] \in Frame
      BY FrameChange
    <2> QED
      BY <1>1, <2>1 DEF AlreadyInstalled, Begin, Called, Running, Ended
  <1>2. ASSUME NEW c \in Calls, Advance(c) PROVE TypeOK'
    <2>1. CASE MarkInstalled(c)
      BY <2>1 DEF MarkInstalled, Running, AppOf, Frame
    <2>2. CASE SnapshotApp(c)
      <3>1. [frame[c] EXCEPT !.preHooks = hooks[AppOf(c)],
                             !.preRoutes = routes[AppOf(c)]] \in Frame
        BY FrameChange DEF AppOf
      <3> QED
        BY <2>2, <3>1 DEF SnapshotApp, Running
    <2>3. CASE PeekService(c)
      <3>1. [frame[c] EXCEPT !.pre = service] \in Frame
        BY FrameChange
      <3> QED
        BY <2>3, <3>1 DEF PeekService, Running, Trying, Fallible
    <2>4. CASE SetService(c)
      BY <2>4, NamesAssumption DEF SetService, Running, Trying, Fallible, NameOf, Frame
    <2>5. CASE ReuseCollector(c)
      <3>1. [frame[c] EXCEPT !.proc = "reused"] \in Frame
        BY FrameChange
      <3> QED
        BY <2>5, <3>1 DEF ReuseCollector, Running, Trying, Fallible
    <2>6. CASE ClaimCollector(c)
      <3>1. [frame[c] EXCEPT !.prior = collector] \in Frame
        BY FrameChange
      <3> QED
        BY <2>6, <3>1 DEF ClaimCollector, Running, Trying, Fallible
    <2>7. CASE ClaimUnregistered(c)
      BY <2>7 DEF ClaimUnregistered, Running, RollingBack
    <2>8. CASE ConstructCollector(c)
      BY <2>8 DEF ConstructCollector, Running, Trying, Fallible
    <2>9. CASE RegisterCollector(c)
      <3>1. /\ [frame[c] EXCEPT !.proc = "registered"] \in Frame
            /\ [frame[c] EXCEPT !.proc = "service_swap"] \in Frame
        BY FrameChange
      <3> QED
        BY <2>9, <3>1 DEF RegisterCollector, Running, Trying, Fallible
    <2>10. CASE StampBuildInfo(c)
      <3>1. <<NameOf(c), StartedAt>> \in Keys
        BY DEF Frame, Keys, NameOf, StartedAt
      <3>2. [frame[c] EXCEPT !.key = <<NameOf(c), StartedAt>>] \in Frame
        BY <3>1, FrameChange
      <3> QED
        BY <2>10, <3>2 DEF StampBuildInfo, Running, Trying
    <2>11. CASE OwnBuildInfo(c)
      <3>1. /\ [frame[c] EXCEPT !.wasNew = TRUE] \in Frame
            /\ [frame[c] EXCEPT !.wasNew = FALSE] \in Frame
        BY FrameChange
      <3>2. frame' \in [Calls -> Frame]
        <4>1. CASE frame[c].key \notin owned
          <5>1. frame' = [frame EXCEPT ![c].wasNew = TRUE]
            BY <2>11, <4>1 DEF OwnBuildInfo
          <5> QED
            BY <3>1, <5>1
        <4>2. CASE frame[c].key \in owned
          <5>1. frame' = [frame EXCEPT ![c].wasNew = FALSE]
            BY <2>11, <4>2 DEF OwnBuildInfo
          <5> QED
            BY <3>1, <5>1
        <4> QED
          BY <4>1, <4>2
      <3>3. frame[c].key \in Keys
        BY DEF Frame
      <3> QED
        BY <2>11, <3>2, <3>3 DEF OwnBuildInfo, Running, Trying
    <2>12. CASE SetBuildInfo(c)
      BY <2>12 DEF SetBuildInfo, Running, Trying, Fallible, Frame
    <2>13. CASE WireApp(c)
      <3>1. AppOf(c) \in Apps
        BY DEF AppOf, Frame
      <3>2. AddHook(hooks[AppOf(c)], c, AppOf(c)) \in Seq(Hooks)
        BY <3>1, AddHookType
      <3> QED
        BY <2>13, <3>1, <3>2 DEF WireApp, Running, Trying, Fallible
    <2>14. CASE ExposeRoute(c)
      <3>1. AppOf(c) \in Apps /\ Returned(frame[c]) \in Frame
        BY FreshFrameType DEF AppOf, Frame, Returned
      <3>2. Append(routes[AppOf(c)], c) \in Seq(Calls)
        BY <3>1
      <3> QED
        BY <2>14, <3>1, <3>2 DEF ExposeRoute, Ended
    <2>15. CASE ExposeConflict(c)
      BY <2>15 DEF ExposeConflict, Running, RollingBack
    <2> QED
      BY <1>2, <2>1, <2>2, <2>3, <2>4, <2>5, <2>6, <2>7, <2>8, <2>9, <2>10,
         <2>11, <2>12, <2>13, <2>14, <2>15 DEF Advance
  <1>3. ASSUME NEW c \in Calls, Rollback(c) PROVE TypeOK'
    <2>1. CASE RollbackApp(c)
      BY <2>1 DEF RollbackApp, Running, RollingBack, AppOf, Frame
    <2>2. CASE RollbackWiring(c)
      <3>1. AppOf(c) \in Apps /\ frame[c] \in Frame
        BY DEF AppOf, Frame
      <3>2. /\ frame[c].preHooks \in Seq(Hooks) /\ frame[c].preRoutes \in Seq(Calls)
            /\ Len(frame[c].preHooks) \in Nat /\ Len(frame[c].preRoutes) \in Nat
        BY <3>1 DEF Frame
      <3>3. Truncate(hooks[AppOf(c)], Len(frame[c].preHooks)) \in Seq(Hooks)
        BY <3>1, <3>2, TruncateType
      <3>4. Truncate(routes[AppOf(c)], Len(frame[c].preRoutes)) \in Seq(Calls)
        BY <3>1, <3>2, TruncateType
      <3>5. Unwired(c).hooks \in Seq(Hooks) /\ Unwired(c).routes \in Seq(Calls)
        BY <3>1, <3>2, <3>3, <3>4 DEF Unwired
      <3> QED
        BY <2>2, <3>1, <3>5 DEF RollbackWiring, Running, RollingBack
    <2>3. CASE KeepBuildInfo(c)
      BY <2>3 DEF KeepBuildInfo, Running, RollingBack
    <2>4. CASE DisownBuildInfo(c)
      BY <2>4 DEF DisownBuildInfo, Running, RollingBack
    <2>5. CASE RemoveBuildInfo(c)
      BY <2>5 DEF RemoveBuildInfo, Running, RollingBack
    <2>6. CASE RestoreCollector(c)
      BY <2>6 DEF RestoreCollector, Running, RollingBack, Frame
    <2>9. CASE UnregisterMine(c)
      BY <2>9 DEF UnregisterMine, Running, RollingBack
    <2>10. CASE ReregisterPrior(c)
      <3>1. frame[c].prior \in Calls
        BY <2>10 DEF ReregisterPrior, Frame, Goto
      <3> QED
        BY <2>10, <3>1 DEF ReregisterPrior, Reexposed, Running, RollingBack
    <2>7. CASE KeepCollector(c)
      BY <2>7 DEF KeepCollector, Running, RollingBack
    <2>8. CASE RestoreService(c)
      <3>1. Raised(frame[c]) \in Frame /\ frame[c].pre \in Names \cup {NoName}
        BY FreshFrameType DEF Frame, Raised
      <3> QED
        BY <2>8, <3>1, NamesAssumption DEF RestoreService, Ended
    <2> QED
      BY <1>3, <2>1, <2>2, <2>3, <2>4, <2>5, <2>6, <2>7, <2>8, <2>9, <2>10 DEF Rollback
  <1>4. ASSUME NEW c \in Calls, Raise(c) PROVE TypeOK'
    BY <1>4 DEF Raise, ReleaseProcLock, Running, RollingBack
  <1>5. ASSUME NEW a \in Apps, DropSentinel(a) PROVE TypeOK'
    BY <1>5 DEF DropSentinel
  <1>6. CASE Tick
    BY <1>6, ParametersAssumption DEF Tick, Seconds
  <1>7. CASE Serve \/ UNCHANGED vars
    BY <1>7 DEF Serve, vars
  <1> QED
    BY <1>1, <1>2, <1>3, <1>4, <1>5, <1>6, <1>7 DEF Next

\* Type correctness of install(): whatever the calls do and wherever they fail.
THEOREM TypeCorrect == Spec => []TypeOK
  <1>1. Init => TypeOK
    <2> SUFFICES ASSUME Init PROVE TypeOK
      OBVIOUS
    <2>1. hooks \in [Apps -> Seq(Hooks)]
      BY AppsAssumption DEF Init, Hooks
    <2> QED
      BY <2>1, FreshFrameType, ParametersAssumption DEF Init, TypeOK, Seconds
  <1> QED
    BY <1>1, TypeStep, PTL DEF Spec

-----------------------------------------------------------------------------
(* The process collector.                                                  *)

\* The statements inside the two `with _lock` blocks.
Inside == {"construct", "register", "rb_register", "rb_assign"}

\* Who is inside _lock, and what the registry and the singleton are meanwhile.
CollectorInv ==
    /\ \A c \in Calls : pc[c] \in Inside <=> procLock = c
    /\ (\A c \in Calls : pc[c] # "rb_assign") => exposed \subseteq {collector}
    /\ \A c \in Calls : pc[c] \in {"construct", "register", "rb_register"} => exposed = {}
    /\ \A c \in Calls : pc[c] \in {"register", "rb_register", "rb_assign"} => collector = c
    /\ \A c \in Calls : pc[c] \in {"rb_register", "rb_assign"} => Installed(c)
    /\ \A c \in Calls : pc[c] = "rb_register" => frame[c].prior # NoCall
    /\ \A c \in Calls : pc[c] = "rb_assign" => exposed = {frame[c].prior} \ {NoCall}

\* A step of call c that stays out of _lock and of what it protects.
LEMMA CollectorQuiet ==
    ASSUME TypeOK, CollectorInv, NEW c \in Calls, NEW to,
           pc[c] \notin Inside, to \notin Inside,
           pc' = [pc EXCEPT ![c] = to], UNCHANGED procVars,
           \A d \in Calls \ {c} : frame'[d] = frame[d]
    PROVE  CollectorInv'
  BY DEF TypeOK, CollectorInv, procVars, Inside, Installed

\* The critical sections of _process.py keep CollectorInv, wherever they raise.
LEMMA CollectorStep == TypeOK /\ CollectorInv /\ [Next]_vars => CollectorInv'
  <1> SUFFICES ASSUME TypeOK, CollectorInv, [Next]_vars PROVE CollectorInv'
    OBVIOUS
  <1>1. ASSUME NEW c \in Calls, NEW a \in Apps, NEW n \in Names,
               AlreadyInstalled(c, a, n) \/ Begin(c, a, n)
        PROVE  CollectorInv'
    BY <1>1, CollectorQuiet DEF AlreadyInstalled, Begin, Called, Goto, TypeOK, Inside
  <1>2. ASSUME NEW c \in Calls, Advance(c) PROVE CollectorInv'
    <2>1. CASE ClaimCollector(c)
      BY <2>1, CallsAssumption
      DEF ClaimCollector, Goto, Free, TypeOK, CollectorInv, Inside, Installed
    <2>2. CASE ConstructCollector(c)
      BY <2>2 DEF ConstructCollector, Goto, TypeOK, CollectorInv, Inside, Installed
    <2>3. CASE RegisterCollector(c)
      BY <2>3, CallsAssumption
      DEF RegisterCollector, Goto, TypeOK, CollectorInv, Inside, Installed
    <2>4. CASE SetService(c)
      BY <2>4, CollectorQuiet DEF SetService, Goto, Inside
    <2>5. CASE MarkInstalled(c) \/ SnapshotApp(c) \/ PeekService(c) \/ ReuseCollector(c)
      BY <2>5, CollectorQuiet
      DEF MarkInstalled, SnapshotApp, PeekService, ReuseCollector, Goto, TypeOK, Inside
    <2>6. CASE ClaimUnregistered(c) \/ StampBuildInfo(c) \/ OwnBuildInfo(c) \/ SetBuildInfo(c)
      BY <2>6, CollectorQuiet
      DEF ClaimUnregistered, StampBuildInfo, OwnBuildInfo, SetBuildInfo, Goto, TypeOK, Inside
    <2>7. CASE WireApp(c) \/ ExposeRoute(c) \/ ExposeConflict(c)
      BY <2>7, CollectorQuiet DEF WireApp, ExposeRoute, ExposeConflict, Goto, TypeOK, Inside
    <2> QED
      BY <1>2, <2>1, <2>2, <2>3, <2>4, <2>5, <2>6, <2>7 DEF Advance
  <1>3. ASSUME NEW c \in Calls, Rollback(c) PROVE CollectorInv'
    <2>1. CASE UnregisterMine(c)
      BY <2>1, CallsAssumption
      DEF UnregisterMine, LiveIsMine, Goto, Free, TypeOK, CollectorInv, Inside, Installed
    <2>2. CASE ReregisterPrior(c)
      BY <2>2, CallsAssumption
      DEF ReregisterPrior, Reexposed, Goto, TypeOK, CollectorInv, Inside, Installed
    <2>3. CASE RestoreCollector(c)
      BY <2>3, CallsAssumption DEF RestoreCollector, Goto, TypeOK, CollectorInv, Inside, Installed
    <2>4. CASE RollbackApp(c) \/ RollbackWiring(c) \/ KeepBuildInfo(c) \/ DisownBuildInfo(c)
      BY <2>4, CollectorQuiet
      DEF RollbackApp, RollbackWiring, KeepBuildInfo, DisownBuildInfo, Goto, TypeOK, Inside
    <2>5. CASE RemoveBuildInfo(c) \/ KeepCollector(c) \/ RestoreService(c)
      BY <2>5, CollectorQuiet
      DEF RemoveBuildInfo, KeepCollector, RestoreService, Goto, TypeOK, Inside
    <2> QED
      BY <1>3, <2>1, <2>2, <2>3, <2>4, <2>5 DEF Rollback
  <1>4. ASSUME NEW c \in Calls, Raise(c) PROVE CollectorInv'
    BY <1>4, CallsAssumption, ParametersAssumption
    DEF Raise, ReleaseProcLock, TypeOK, CollectorInv, Inside, Installed, Fallible
  <1>5. CASE (\E a \in Apps : DropSentinel(a)) \/ Tick \/ Serve \/ UNCHANGED vars
    <2>1. UNCHANGED <<pc, frame, procVars>>
      BY <1>5 DEF DropSentinel, Tick, Serve, vars
    <2> QED
      BY <2>1 DEF CollectorInv, Installed, procVars
  <1> QED
    BY <1>1, <1>2, <1>3, <1>4, <1>5 DEF Next

\* The invariant of the process collector's critical sections, for every run.
LEMMA CollectorInvariant == Spec => [](TypeOK /\ CollectorInv)
  <1>1. Init => CollectorInv
    BY CallsAssumption DEF Init, CollectorInv, Inside
  <1> QED
    BY <1>1, CollectorStep, TypeCorrect, PTL DEF Spec

\* In any interleaving, inside the critical sections too, and whatever raises there,
\* the registry holds one process collector at most, the singleton or the one that a
\* rollback is putting back.
THEOREM NoStray == Spec => []NoStrayCollector
  <1>1. TypeOK /\ CollectorInv => NoStrayCollector
    <2> SUFFICES ASSUME TypeOK, CollectorInv PROVE NoStrayCollector
      OBVIOUS
    <2>1. CASE \A c \in Calls : pc[c] # "rb_assign"
      BY <2>1 DEF CollectorInv, NoStrayCollector
    <2>2. ASSUME NEW c \in Calls, pc[c] = "rb_assign" PROVE NoStrayCollector
      <3>1. exposed = {frame[c].prior} \ {NoCall}
        BY <2>2 DEF CollectorInv
      <3>2. frame[c].prior \in {frame[e].prior : e \in {d \in Calls : pc[d] = "rb_assign"}}
        BY <2>2
      <3> QED
        BY <3>1, <3>2 DEF NoStrayCollector, BeingRestored
    <2> QED
      BY <2>1, <2>2
  <1> QED
    BY <1>1, CollectorInvariant, PTL

\* If the two statements between the unregistration of the prior collector and
\* the registration of the new one never raise, the registry holds exactly the
\* singleton whenever _lock is free.
LEMMA SingletonAlways ==
    ASSUME Raises \cap {"construct", "register"} = {}
    PROVE  Spec => []SingletonAlwaysExposed
  <1>1. Init => SingletonAlwaysExposed
    BY DEF Init, SingletonAlwaysExposed
  <1>2. TypeOK /\ CollectorInv /\ SingletonAlwaysExposed /\ [Next]_vars => SingletonAlwaysExposed'
    <2> SUFFICES ASSUME TypeOK, CollectorInv, SingletonAlwaysExposed, [Next]_vars
                 PROVE  SingletonAlwaysExposed'
      OBVIOUS
    <2>1. CASE UNCHANGED procVars
      BY <2>1 DEF SingletonAlwaysExposed, procVars
    <2>2. ASSUME NEW c \in Calls, ClaimCollector(c) PROVE SingletonAlwaysExposed'
      BY <2>2, CallsAssumption DEF ClaimCollector, SingletonAlwaysExposed
    <2>3. ASSUME NEW c \in Calls, ConstructCollector(c) PROVE SingletonAlwaysExposed'
      BY <2>3, CallsAssumption
         DEF ConstructCollector, Goto, SingletonAlwaysExposed, CollectorInv, Inside
    <2>4. ASSUME NEW c \in Calls, RegisterCollector(c) PROVE SingletonAlwaysExposed'
      BY <2>4, CallsAssumption
         DEF RegisterCollector, Goto, SingletonAlwaysExposed, CollectorInv, Inside
    <2>5. ASSUME NEW c \in Calls, UnregisterMine(c) \/ ReregisterPrior(c) \/ RestoreCollector(c)
          PROVE  SingletonAlwaysExposed'
      BY <2>5, CallsAssumption
         DEF UnregisterMine, ReregisterPrior, RestoreCollector, Goto, SingletonAlwaysExposed,
             CollectorInv, Inside, TypeOK
    <2>6. ASSUME NEW c \in Calls, Raise(c) PROVE SingletonAlwaysExposed'
      BY <2>6, CallsAssumption, ParametersAssumption
         DEF Raise, ReleaseProcLock, SingletonAlwaysExposed, CollectorInv, Inside, Fallible
    <2>7. ASSUME NEW c \in Calls, Advance(c) PROVE SingletonAlwaysExposed'
      BY <2>1, <2>2, <2>3, <2>4, <2>7
         DEF Advance, MarkInstalled, SnapshotApp, PeekService, SetService,
             ReuseCollector, ClaimUnregistered, StampBuildInfo, OwnBuildInfo,
             SetBuildInfo, WireApp, ExposeRoute, ExposeConflict
    <2>8. ASSUME NEW c \in Calls, Rollback(c) PROVE SingletonAlwaysExposed'
      BY <2>1, <2>5, <2>8
         DEF Rollback, RollbackApp, RollbackWiring, KeepBuildInfo, DisownBuildInfo,
             RemoveBuildInfo, KeepCollector, RestoreService
    <2>9. CASE \/ \E c \in Calls, a \in Apps, n \in Names :
                     AlreadyInstalled(c, a, n) \/ Begin(c, a, n)
               \/ \E a \in Apps : DropSentinel(a)
               \/ Tick \/ Serve \/ UNCHANGED vars
      BY <2>1, <2>9 DEF AlreadyInstalled, Begin, DropSentinel, Tick, Serve, vars
    <2> QED
      BY <2>6, <2>7, <2>8, <2>9 DEF Next
  <1> QED
    BY <1>1, <1>2, CollectorInvariant, PTL DEF Spec

\* A call that has not returned from register_process_collector has done nothing about
\* the collector yet, and the prior one stays in the slot until the new one takes it.
Unswapped ==
    /\ \A c \in Calls :
         pc[c] \in {"idle", "mark", "snap", "peek", "set_service", "claim", "construct", "register"}
           => frame[c].proc = "none"
    /\ \A c \in Calls : pc[c] = "construct" => collector = frame[c].prior

\* What a call did about the collector is settled once it rolls back.
LEMMA UnswappedStep == TypeOK /\ CollectorInv /\ Unswapped /\ [Next]_vars => Unswapped'
  <1> SUFFICES ASSUME TypeOK, CollectorInv, Unswapped, [Next]_vars PROVE Unswapped'
    OBVIOUS
  <1>1. ASSUME NEW c \in Calls, NEW a \in Apps, NEW n \in Names,
               AlreadyInstalled(c, a, n) \/ Begin(c, a, n)
        PROVE  Unswapped'
    <2>1. /\ pc[c] = "idle" /\ pc' \in {[pc EXCEPT ![c] = "noop"], [pc EXCEPT ![c] = "mark"]}
          /\ collector' = collector
      BY <1>1 DEF AlreadyInstalled, Begin, Goto, procVars
    <2>2. \A d \in Calls : frame'[d].proc = frame[d].proc /\ frame'[d].prior = frame[d].prior
      <3>1. frame' = [frame EXCEPT ![c].app = a, ![c].name = n]
        BY <1>1 DEF AlreadyInstalled, Begin, Called
      <3>2. frame[c] \in Frame
        BY DEF TypeOK
      <3>3. frame'[c].proc = frame[c].proc /\ frame'[c].prior = frame[c].prior
        BY <3>1, <3>2 DEF Frame, TypeOK
      <3>4. \A d \in Calls \ {c} : frame'[d] = frame[d]
        BY <3>1 DEF TypeOK
      <3> QED
        BY <3>3, <3>4
    <2> QED
      BY <2>1, <2>2 DEF TypeOK, Unswapped
  <1>2. ASSUME NEW c \in Calls, Advance(c) PROVE Unswapped'
    <2>1. CASE ClaimCollector(c)
      BY <2>1 DEF ClaimCollector, Goto, TypeOK, Frame, Unswapped
    <2>2. CASE ConstructCollector(c)
      BY <2>2 DEF ConstructCollector, Goto, TypeOK, Unswapped, CollectorInv, Inside
    <2>3. CASE RegisterCollector(c)
      BY <2>3 DEF RegisterCollector, Goto, TypeOK, Frame, Unswapped
    <2>4. CASE MarkInstalled(c)
      BY <2>4 DEF MarkInstalled, Goto, TypeOK, Unswapped, procVars
    <2>8. CASE SnapshotApp(c)
      <3>1. \A d \in Calls : frame'[d].proc = frame[d].proc /\ frame'[d].prior = frame[d].prior
        BY <2>8 DEF SnapshotApp, TypeOK, Frame
      <3> QED
        BY <2>8, <3>1 DEF SnapshotApp, Goto, TypeOK, Unswapped, procVars
    <2>9. CASE PeekService(c)
      <3>1. \A d \in Calls : frame'[d].proc = frame[d].proc /\ frame'[d].prior = frame[d].prior
        BY <2>9 DEF PeekService, TypeOK, Frame
      <3> QED
        BY <2>9, <3>1 DEF PeekService, Goto, TypeOK, Unswapped, procVars
    <2>10. CASE ReuseCollector(c)
      <3>1. \A d \in Calls : frame'[d].prior = frame[d].prior /\ (d # c => frame'[d] = frame[d])
        BY <2>10 DEF ReuseCollector, TypeOK, Frame
      <3> QED
        BY <2>10, <3>1 DEF ReuseCollector, Goto, TypeOK, Unswapped, procVars
    <2>5. CASE SetService(c) \/ ClaimUnregistered(c) \/ StampBuildInfo(c) \/ SetBuildInfo(c)
      BY <2>5 DEF SetService, ClaimUnregistered, StampBuildInfo, SetBuildInfo, Goto, TypeOK, Frame,
                  Unswapped, procVars
    <2>6. CASE OwnBuildInfo(c) \/ WireApp(c) \/ ExposeConflict(c)
      BY <2>6 DEF OwnBuildInfo, WireApp, ExposeConflict, Goto, TypeOK, Frame, Unswapped, procVars
    <2>7. CASE ExposeRoute(c)
      BY <2>7 DEF ExposeRoute, Goto, TypeOK, Frame, Unswapped, procVars
    <2> QED
      BY <1>2, <2>1, <2>2, <2>3, <2>4, <2>5, <2>6, <2>7, <2>8, <2>9,
         <2>10 DEF Advance
  <1>3. ASSUME NEW c \in Calls, Rollback(c) PROVE Unswapped'
    <2>1. CASE UnregisterMine(c) \/ ReregisterPrior(c)
      BY <2>1 DEF UnregisterMine, ReregisterPrior, Goto, TypeOK, Unswapped
    <2>2. CASE RestoreCollector(c)
      BY <2>2 DEF RestoreCollector, Goto, TypeOK, Unswapped, CollectorInv, Inside
    <2>3. CASE RollbackApp(c) \/ RollbackWiring(c) \/ KeepBuildInfo(c) \/ DisownBuildInfo(c)
               \/ RemoveBuildInfo(c) \/ KeepCollector(c)
      BY <2>3 DEF RollbackApp, RollbackWiring, KeepBuildInfo, DisownBuildInfo, RemoveBuildInfo,
                  KeepCollector, Goto, TypeOK, Unswapped, procVars
    <2>4. CASE RestoreService(c)
      BY <2>4 DEF RestoreService, Goto, TypeOK, Unswapped, procVars
    <2> QED
      BY <1>3, <2>1, <2>2, <2>3, <2>4 DEF Rollback
  <1>4. ASSUME NEW c \in Calls, Raise(c) PROVE Unswapped'
    BY <1>4 DEF Raise, TypeOK, Unswapped
  <1>5. CASE (\E a \in Apps : DropSentinel(a)) \/ Tick \/ Serve \/ UNCHANGED vars
    BY <1>5 DEF DropSentinel, Tick, Serve, vars, procVars, Unswapped
  <1> QED
    BY <1>1, <1>2, <1>3, <1>4, <1>5 DEF Next

\* A call that rolls back or has raised keeps what it did about the collector.
LEMMA SettledKept ==
    ASSUME TypeOK, [Next]_vars, NEW c \in Calls, pc[c] \in RollingBack \cup {"raised"}
    PROVE  /\ pc'[c] \in RollingBack \cup {"raised"}
           /\ frame'[c].proc = frame[c].proc
           /\ frame[c].proc = "none" => frame'[c].prior = frame[c].prior
  <1>1. ASSUME NEW d \in Calls, NEW a \in Apps, NEW n \in Names,
               AlreadyInstalled(d, a, n) \/ Begin(d, a, n)
        PROVE  /\ pc'[c] = pc[c] /\ frame'[c] = frame[c]
    BY <1>1 DEF AlreadyInstalled, Begin, Called, Goto, TypeOK, RollingBack
  <1>2. ASSUME NEW d \in Calls, Advance(d) PROVE pc'[c] = pc[c] /\ frame'[c] = frame[c]
    BY <1>2 DEF Advance, MarkInstalled, SnapshotApp, PeekService, SetService, ReuseCollector,
                ClaimCollector, ClaimUnregistered, ConstructCollector, RegisterCollector,
                StampBuildInfo, OwnBuildInfo, SetBuildInfo, WireApp, ExposeRoute, ExposeConflict,
                Goto, TypeOK, RollingBack
  <1>3. ASSUME NEW d \in Calls, Raise(d) PROVE pc'[c] = pc[c] /\ frame'[c] = frame[c]
    BY <1>3, ParametersAssumption DEF Raise, TypeOK, RollingBack, Fallible
  <1>4. ASSUME NEW d \in Calls, RestoreService(d)
        PROVE  /\ pc'[c] \in RollingBack \cup {"raised"}
               /\ frame'[c].proc = frame[c].proc
               /\ frame[c].proc = "none" => frame'[c].prior = frame[c].prior
    <2>1. CASE d = c
      <3>1. frame'[c] = Raised(frame[c]) /\ pc'[c] = "raised"
        BY <1>4, <2>1 DEF RestoreService, Goto, TypeOK
      <3> QED
        BY <3>1 DEF Raised, FreshFrame
    <2>2. CASE d # c
      BY <1>4, <2>2 DEF RestoreService, Goto, TypeOK
    <2> QED
      BY <2>1, <2>2
  <1>5. ASSUME NEW d \in Calls, Rollback(d), ~RestoreService(d)
        PROVE  pc'[c] \in RollingBack \cup {"raised"} /\ frame' = frame
    BY <1>5 DEF Rollback, RollbackApp, RollbackWiring, KeepBuildInfo, DisownBuildInfo,
                RemoveBuildInfo, UnregisterMine, ReregisterPrior, RestoreCollector, KeepCollector,
                Goto, TypeOK, RollingBack
  <1>6. CASE (\E a \in Apps : DropSentinel(a)) \/ Tick \/ Serve \/ UNCHANGED vars
    BY <1>6 DEF DropSentinel, Tick, Serve, vars
  <1> QED
    BY <1>1, <1>2, <1>3, <1>4, <1>5, <1>6 DEF Next

\* So a swap that broke off stays broken while nobody touches the slot.
LEMMA SwapStaysBroken ==
    ASSUME TypeOK, [Next]_vars, UNCHANGED collector, SwapBroke
    PROVE  SwapBroke'
  <1>1. PICK c \in Calls : /\ pc[c] \in RollingBack \cup {"raised"}
                           /\ frame[c].proc = "none"
                           /\ frame[c].prior # NoCall \/ collector = c
    BY DEF SwapBroke
  <1> QED
    BY <1>1, SettledKept DEF SwapBroke

\* However calls overlap and wherever they raise: the registry holds exactly the singleton
\* whenever _lock is free, unless a constructor or a registration raised in the middle of
\* a swap (_process.py:168-170).
THEOREM SingletonExposed == Spec => []SingletonIsExposed
  <1>1. Init => SingletonIsExposed /\ Unswapped
    BY DEF Init, SingletonIsExposed, Unswapped, FreshFrame
  <1>2. TypeOK /\ CollectorInv /\ Unswapped /\ SingletonIsExposed /\ [Next]_vars
          => SingletonIsExposed'
    <2> SUFFICES ASSUME TypeOK, CollectorInv, Unswapped, SingletonIsExposed, [Next]_vars
                 PROVE  SingletonIsExposed'
      OBVIOUS
    <2>1. CASE UNCHANGED procVars
      BY <2>1, SwapStaysBroken DEF SingletonIsExposed, procVars
    <2>2. ASSUME NEW c \in Calls, ClaimCollector(c) \/ UnregisterMine(c)
          PROVE  SingletonIsExposed'
      BY <2>2, CallsAssumption DEF ClaimCollector, UnregisterMine, SingletonIsExposed
    <2>3. ASSUME NEW c \in Calls, ConstructCollector(c) \/ ReregisterPrior(c)
          PROVE  SingletonIsExposed'
      BY <2>3, CallsAssumption
         DEF ConstructCollector, ReregisterPrior, Goto, SingletonIsExposed, CollectorInv, Inside
    <2>4. ASSUME NEW c \in Calls, RegisterCollector(c) PROVE SingletonIsExposed'
      BY <2>4, CallsAssumption
         DEF RegisterCollector, Goto, SingletonIsExposed, CollectorInv, Inside
    <2>5. ASSUME NEW c \in Calls, RestoreCollector(c) PROVE SingletonIsExposed'
      BY <2>5 DEF RestoreCollector, Goto, SingletonIsExposed, CollectorInv
    <2>6. ASSUME NEW c \in Calls, Raise(c) PROVE SingletonIsExposed'
      <3>1. CASE pc[c] \notin {"construct", "register"}
        <4>1. UNCHANGED procVars
          BY <2>6, <3>1, ParametersAssumption
             DEF Raise, ReleaseProcLock, CollectorInv, Inside, Fallible, procVars
        <4> QED
          BY <2>1, <4>1
      <3>2. CASE pc[c] \in {"construct", "register"}
        <4>1. /\ pc'[c] = "rb_app" /\ exposed' = {} /\ collector' = collector
              /\ frame'[c].proc = "none" /\ frame'[c].prior = frame[c].prior
          BY <2>6, <3>2 DEF Raise, TypeOK, CollectorInv, Unswapped
        <4>2. collector = c \/ collector = frame[c].prior
          BY <3>2 DEF CollectorInv, Unswapped
        <4> QED
          BY <4>1, <4>2 DEF SwapBroke, RollingBack, SingletonIsExposed
      <3> QED
        BY <3>1, <3>2
    <2>7. ASSUME NEW c \in Calls, Advance(c) PROVE SingletonIsExposed'
      BY <2>1, <2>2, <2>3, <2>4, <2>7
         DEF Advance, MarkInstalled, SnapshotApp, PeekService, SetService,
             ReuseCollector, ClaimUnregistered, StampBuildInfo, OwnBuildInfo,
             SetBuildInfo, WireApp, ExposeRoute, ExposeConflict
    <2>8. ASSUME NEW c \in Calls, Rollback(c) PROVE SingletonIsExposed'
      BY <2>1, <2>2, <2>3, <2>5, <2>8
         DEF Rollback, RollbackApp, RollbackWiring, KeepBuildInfo, DisownBuildInfo,
             RemoveBuildInfo, KeepCollector, RestoreService
    <2>9. CASE \/ \E c \in Calls, a \in Apps, n \in Names :
                     AlreadyInstalled(c, a, n) \/ Begin(c, a, n)
               \/ \E a \in Apps : DropSentinel(a)
               \/ Tick \/ Serve \/ UNCHANGED vars
      BY <2>1, <2>9 DEF AlreadyInstalled, Begin, DropSentinel, Tick, Serve, vars
    <2> QED
      BY <2>6, <2>7, <2>8, <2>9 DEF Next
  <1> QED
    BY <1>1, <1>2, UnswappedStep, CollectorInvariant, PTL DEF Spec

-----------------------------------------------------------------------------
(* The build_info samples.                                                 *)

\* Who is inside _owned_label_keys_lock, and how far the two writes are.
OwnershipInv ==
    /\ \A c \in Calls : pc[c] \in {"sample", "rb_sample"} <=> ownLock = c
    /\ OwnershipMatchesSamples
    /\ \A c \in Calls : pc[c] = "sample" => owned = samples \cup {frame[c].key}
    /\ \A c \in Calls : pc[c] = "rb_sample" => owned = samples \ {frame[c].key}

BeforeOwning == {"idle", "mark", "snap", "peek", "set_service", "claim",
                 "construct", "register", "stamp", "own"}

\* No key has two owners, and an owned key is a sample, except inside the lock.
OwnerInv ==
    /\ \A c \in Calls : pc[c] \in BeforeOwning => ~frame[c].wasNew
    /\ \A c \in Calls : pc[c] = "rb_sample" => frame[c].wasNew
    /\ \A k \in Keys : \A c, d \in Calls : Owns(c, k) /\ Owns(d, k) => c = d
    /\ \A k \in samples : \E c \in Calls : Owns(c, k)
    /\ \A c \in Calls : frame[c].wasNew /\ pc[c] \notin {"sample", "rb_proc", "rb_register", "rb_assign", "rb_service", "raised"}
                            => frame[c].key \in samples
    /\ \A c \in Calls : pc[c] = "sample" =>
          IF frame[c].wasNew THEN frame[c].key \notin samples ELSE frame[c].key \in samples

\* A step of call c that stays out of the ownership lock and of what it protects.
LEMMA OwnershipQuiet ==
    ASSUME TypeOK, OwnershipInv, NEW c \in Calls, NEW to,
           pc[c] \notin {"sample", "rb_sample"}, to \notin {"sample", "rb_sample"},
           pc' = [pc EXCEPT ![c] = to], UNCHANGED buildVars,
           \A d \in Calls \ {c} : frame'[d] = frame[d]
    PROVE  OwnershipInv'
  BY DEF TypeOK, OwnershipInv, OwnershipMatchesSamples, buildVars

\* The two critical sections of build_info.py keep OwnershipInv.
LEMMA OwnershipStep == TypeOK /\ OwnershipInv /\ [Next]_vars => OwnershipInv'
  <1> SUFFICES ASSUME TypeOK, OwnershipInv, [Next]_vars PROVE OwnershipInv'
    OBVIOUS
  <1> USE DEF Goto
  <1>1. ASSUME NEW c \in Calls, NEW a \in Apps, NEW n \in Names,
               AlreadyInstalled(c, a, n) \/ Begin(c, a, n)
        PROVE  OwnershipInv'
    BY <1>1, OwnershipQuiet DEF AlreadyInstalled, Begin, Called, TypeOK
  <1>2. ASSUME NEW c \in Calls, Advance(c) PROVE OwnershipInv'
    <2>1. CASE OwnBuildInfo(c)
      BY <2>1, CallsAssumption
         DEF OwnBuildInfo, Free, TypeOK, OwnershipInv, OwnershipMatchesSamples
    <2>2. CASE SetBuildInfo(c)
      BY <2>2, CallsAssumption
         DEF SetBuildInfo, TypeOK, OwnershipInv, OwnershipMatchesSamples
    <2>3. CASE MarkInstalled(c) \/ SnapshotApp(c) \/ PeekService(c) \/ SetService(c)
      BY <2>3, OwnershipQuiet DEF MarkInstalled, SnapshotApp, PeekService, SetService, TypeOK
    <2>4. CASE ReuseCollector(c) \/ ClaimCollector(c) \/ ClaimUnregistered(c)
      BY <2>4, OwnershipQuiet
         DEF ReuseCollector, ClaimCollector, ClaimUnregistered, TypeOK
    <2>5. CASE ConstructCollector(c) \/ RegisterCollector(c) \/ StampBuildInfo(c)
      BY <2>5, OwnershipQuiet
         DEF ConstructCollector, RegisterCollector, StampBuildInfo, TypeOK
    <2>6. CASE WireApp(c) \/ ExposeRoute(c) \/ ExposeConflict(c)
      BY <2>6, OwnershipQuiet DEF WireApp, ExposeRoute, ExposeConflict, TypeOK
    <2> QED
      BY <1>2, <2>1, <2>2, <2>3, <2>4, <2>5, <2>6 DEF Advance
  <1>3. ASSUME NEW c \in Calls, Rollback(c) PROVE OwnershipInv'
    <2>1. CASE DisownBuildInfo(c)
      BY <2>1, CallsAssumption
         DEF DisownBuildInfo, Free, TypeOK, OwnershipInv, OwnershipMatchesSamples
    <2>2. CASE RemoveBuildInfo(c)
      BY <2>2, CallsAssumption
         DEF RemoveBuildInfo, TypeOK, OwnershipInv, OwnershipMatchesSamples
    <2>3. CASE RollbackApp(c) \/ RollbackWiring(c) \/ KeepBuildInfo(c)
      BY <2>3, OwnershipQuiet DEF RollbackApp, RollbackWiring, KeepBuildInfo
    <2>4. CASE RestoreCollector(c) \/ KeepCollector(c) \/ RestoreService(c)
      BY <2>4, OwnershipQuiet
         DEF RestoreCollector, KeepCollector, RestoreService, TypeOK
    <2>5. CASE UnregisterMine(c) \/ ReregisterPrior(c)
      BY <2>5, OwnershipQuiet DEF UnregisterMine, ReregisterPrior
    <2> QED
      BY <1>3, <2>1, <2>2, <2>3, <2>4, <2>5 DEF Rollback
  <1>4. ASSUME NEW c \in Calls, Raise(c) PROVE OwnershipInv'
    BY <1>4, OwnershipQuiet, ParametersAssumption DEF Raise, Fallible
  <1>5. CASE (\E a \in Apps : DropSentinel(a)) \/ Tick \/ Serve \/ UNCHANGED vars
    <2>1. UNCHANGED <<pc, frame, buildVars>>
      BY <1>5 DEF DropSentinel, Tick, Serve, vars
    <2> QED
      BY <2>1 DEF OwnershipInv, OwnershipMatchesSamples, buildVars
  <1> QED
    BY <1>1, <1>2, <1>3, <1>4, <1>5 DEF Next

\* The invariant of the ownership lock, for every run.
LEMMA OwnershipInvariant == Spec => [](TypeOK /\ OwnershipInv)
  <1>1. Init => OwnershipInv
    BY CallsAssumption DEF Init, OwnershipInv, OwnershipMatchesSamples
  <1> QED
    BY <1>1, OwnershipStep, TypeCorrect, PTL DEF Spec

\* Whenever the lock is free the ownership set and the gauge hold the same label
\* sets: no interleaving of registrations and rollbacks tears them apart.
THEOREM OwnershipMatches == Spec => []OwnershipMatchesSamples
  <1>1. OwnershipInv => OwnershipMatchesSamples
    BY DEF OwnershipInv
  <1> QED
    BY <1>1, OwnershipInvariant, PTL

\* A step of call c that changes neither a sample nor what any call answers for.
LEMMA OwnerQuiet ==
    ASSUME TypeOK, OwnerInv, NEW c \in Calls, NEW to,
           pc[c] \notin {"own", "sample", "rb_build", "rb_sample", "rb_proc",
                         "rb_register", "rb_assign", "rb_service", "raised"},
           to \notin {"sample", "rb_sample", "rb_proc", "rb_register", "rb_assign", "rb_service", "raised"},
           to \in BeforeOwning => pc[c] \in BeforeOwning,
           pc' = [pc EXCEPT ![c] = to], samples' = samples,
           \A d \in Calls : frame'[d].wasNew <=> frame[d].wasNew,
           \A d \in Calls : d # c \/ frame[d].wasNew => frame'[d].key = frame[d].key
    PROVE  OwnerInv'
  <1>1. \A d \in Calls : \A k \in Keys : Owns(d, k)' <=> Owns(d, k)
    BY DEF TypeOK, Owns
  <1>2. \A d \in Calls : d # c => pc'[d] = pc[d]
    BY DEF TypeOK
  <1>3. pc'[c] = to
    BY DEF TypeOK
  <1>4. (\A d \in Calls : pc[d] \in BeforeOwning => ~frame[d].wasNew)'
    BY <1>2, <1>3 DEF OwnerInv
  <1>5. (\A d \in Calls : pc[d] = "rb_sample" => frame[d].wasNew)'
    BY <1>2, <1>3 DEF OwnerInv
  <1>6. (\A k \in Keys : \A d, e \in Calls : Owns(d, k) /\ Owns(e, k) => d = e)'
    BY <1>1 DEF OwnerInv, Keys, Seconds
  <1>7. (\A k \in samples : \E d \in Calls : Owns(d, k))'
    BY <1>1 DEF OwnerInv, TypeOK
  <1>8. (\A d \in Calls : frame[d].wasNew /\ pc[d] \notin {"sample", "rb_proc", "rb_register", "rb_assign", "rb_service", "raised"}
                            => frame[d].key \in samples)'
    BY <1>2, <1>3 DEF OwnerInv
  <1>9. (\A d \in Calls : pc[d] = "sample" =>
          IF frame[d].wasNew THEN frame[d].key \notin samples ELSE frame[d].key \in samples)'
    BY <1>2, <1>3 DEF OwnerInv
  <1> QED
    BY <1>4, <1>5, <1>6, <1>7, <1>8, <1>9 DEF OwnerInv

\* Inside the lock: a new key gets its one owner, before its sample exists.
LEMMA OwnStep ==
    ASSUME TypeOK, OwnershipInv, OwnerInv, NEW c \in Calls, OwnBuildInfo(c)
    PROVE  OwnerInv'
  <1> DEFINE k == frame[c].key
  <1>1. /\ pc[c] = "own" /\ pc'[c] = "sample" /\ \A d \in Calls : d # c => pc'[d] = pc[d]
        /\ \A d \in Calls : d # c => frame'[d] = frame[d]
        /\ samples' = samples
    BY DEF OwnBuildInfo, Goto, TypeOK
  <1>2. frame'[c].key = k /\ (frame'[c].wasNew <=> k \notin samples)
    <2>1. owned = samples
      BY DEF OwnBuildInfo, Free, OwnershipInv, OwnershipMatchesSamples
    <2>2. frame \in [Calls -> Frame] /\ frame[c] \in Frame
      BY DEF TypeOK
    <2>3. frame'[c] = [frame[c] EXCEPT !.wasNew = k \notin owned]
      BY <2>2 DEF OwnBuildInfo
    <2> QED
      BY <2>1, <2>2, <2>3 DEF Frame
  <1>3. \A d \in Calls : pc[d] \notin {"sample", "rb_sample"}
    BY CallsAssumption DEF OwnBuildInfo, Free, OwnershipInv
  <1>4. ~frame[c].wasNew
    BY <1>1 DEF OwnerInv, BeforeOwning
  <1>5. \A d \in Calls : \A x \in Keys : d # c => (Owns(d, x)' <=> Owns(d, x))
    BY <1>1 DEF Owns
  <1>6. \A x \in Keys : ~Owns(c, x) /\ (Owns(c, x)' <=> x = k /\ k \notin samples)
    BY <1>1, <1>2, <1>4 DEF Owns
  <1>7. \A d \in Calls : \A x \in Keys : Owns(d, x) => x \in samples
    BY <1>3 DEF Owns, OwnerInv
  <1>8. (\A x \in Keys : \A d, e \in Calls : Owns(d, x) /\ Owns(e, x) => d = e)'
    <2> SUFFICES ASSUME NEW x \in Keys, NEW d \in Calls, NEW e \in Calls,
                        Owns(d, x)', Owns(e, x)'
                 PROVE  d = e
      BY DEF Keys, Seconds
    <2> QED
      BY <1>5, <1>6, <1>7 DEF OwnerInv
  <1>9. (\A x \in samples : \E d \in Calls : Owns(d, x))'
    BY <1>1, <1>5, <1>6 DEF OwnerInv, TypeOK
  <1>10. (\A d \in Calls : pc[d] \in BeforeOwning => ~frame[d].wasNew)'
    BY <1>1 DEF OwnerInv, BeforeOwning
  <1>11. (\A d \in Calls : pc[d] = "rb_sample" => frame[d].wasNew)'
    BY <1>1 DEF OwnerInv
  <1>12. (\A d \in Calls : frame[d].wasNew /\ pc[d] \notin {"sample", "rb_proc", "rb_register", "rb_assign", "rb_service", "raised"}
                            => frame[d].key \in samples)'
    BY <1>1 DEF OwnerInv
  <1>13. (\A d \in Calls : pc[d] = "sample" =>
          IF frame[d].wasNew THEN frame[d].key \notin samples ELSE frame[d].key \in samples)'
    BY <1>1, <1>2, <1>3 DEF OwnerInv
  <1> QED
    BY <1>8, <1>9, <1>10, <1>11, <1>12, <1>13 DEF OwnerInv

\* Inside the lock: the sample appears, and its owner is the call that found the
\* key unowned, or the one that already had it.
LEMMA SetStep ==
    ASSUME TypeOK, OwnershipInv, OwnerInv, NEW c \in Calls, SetBuildInfo(c)
    PROVE  OwnerInv'
  <1> DEFINE k == frame[c].key
  <1>1. /\ pc[c] = "sample" /\ pc'[c] = "wire" /\ \A d \in Calls : d # c => pc'[d] = pc[d]
        /\ frame' = frame /\ samples' = samples \cup {k} /\ k \in Keys
    BY DEF SetBuildInfo, Goto, TypeOK, Frame
  <1>2. \A d \in Calls : d # c => pc[d] # "sample"
    BY <1>1 DEF OwnershipInv
  <1>3. \A d \in Calls : \A x \in Keys : Owns(d, x)' <=> Owns(d, x)
    BY <1>1 DEF Owns
  <1>4. (\A x \in Keys : \A d, e \in Calls : Owns(d, x) /\ Owns(e, x) => d = e)'
    BY <1>3 DEF OwnerInv, Keys, Seconds
  <1>5. \E d \in Calls : Owns(d, k)
    <2>1. CASE frame[c].wasNew
      BY <1>1, <2>1 DEF Owns
    <2>2. CASE ~frame[c].wasNew
      BY <1>1, <2>2 DEF OwnerInv
    <2> QED
      BY <2>1, <2>2
  <1>6. (\A x \in samples : \E d \in Calls : Owns(d, x))'
    BY <1>1, <1>3, <1>5 DEF OwnerInv, TypeOK
  <1>7. (\A d \in Calls : pc[d] \in BeforeOwning => ~frame[d].wasNew)'
    BY <1>1 DEF OwnerInv, BeforeOwning
  <1>8. (\A d \in Calls : pc[d] = "rb_sample" => frame[d].wasNew)'
    BY <1>1 DEF OwnerInv
  <1>9. (\A d \in Calls : frame[d].wasNew /\ pc[d] \notin {"sample", "rb_proc", "rb_register", "rb_assign", "rb_service", "raised"}
                            => frame[d].key \in samples)'
    BY <1>1 DEF OwnerInv
  <1>10. (\A d \in Calls : pc[d] = "sample" =>
          IF frame[d].wasNew THEN frame[d].key \notin samples ELSE frame[d].key \in samples)'
    BY <1>1, <1>2
  <1> QED
    BY <1>4, <1>6, <1>7, <1>8, <1>9, <1>10 DEF OwnerInv

\* A rollback decides: a call that created no sample leaves the block, one that
\* did goes on to remove it.
LEMMA RollbackOwnerStep ==
    ASSUME TypeOK, OwnerInv, NEW c \in Calls, KeepBuildInfo(c) \/ DisownBuildInfo(c)
    PROVE  OwnerInv'
  <1>1. /\ \A d \in Calls : d # c => pc'[d] = pc[d]
        /\ frame' = frame /\ samples' = samples /\ pc[c] = "rb_build"
        /\ \/ pc'[c] = "rb_proc" /\ ~frame[c].wasNew
           \/ pc'[c] = "rb_sample" /\ frame[c].wasNew
    BY DEF KeepBuildInfo, DisownBuildInfo, RemovesSample, Goto, TypeOK, buildVars
  <1>2. \A d \in Calls : \A x \in Keys : Owns(d, x)' <=> Owns(d, x)
    BY <1>1 DEF Owns
  <1>3. (\A x \in Keys : \A d, e \in Calls : Owns(d, x) /\ Owns(e, x) => d = e)'
    BY <1>2 DEF OwnerInv, Keys, Seconds
  <1>4. (\A x \in samples : \E d \in Calls : Owns(d, x))'
    BY <1>1, <1>2 DEF OwnerInv, TypeOK
  <1>5. (\A d \in Calls : pc[d] \in BeforeOwning => ~frame[d].wasNew)'
    BY <1>1 DEF OwnerInv, BeforeOwning
  <1>6. (\A d \in Calls : pc[d] = "rb_sample" => frame[d].wasNew)'
    BY <1>1 DEF OwnerInv
  <1>7. (\A d \in Calls : frame[d].wasNew /\ pc[d] \notin {"sample", "rb_proc", "rb_register", "rb_assign", "rb_service", "raised"}
                            => frame[d].key \in samples)'
    BY <1>1 DEF OwnerInv
  <1>8. (\A d \in Calls : pc[d] = "sample" =>
          IF frame[d].wasNew THEN frame[d].key \notin samples ELSE frame[d].key \in samples)'
    BY <1>1 DEF OwnerInv
  <1> QED
    BY <1>3, <1>4, <1>5, <1>6, <1>7, <1>8 DEF OwnerInv

\* The owner removes its sample; by uniqueness no other call answered for it.
LEMMA RemoveStep ==
    ASSUME TypeOK, OwnershipInv, OwnerInv, NEW c \in Calls, RemoveBuildInfo(c)
    PROVE  OwnerInv'
  <1> DEFINE k == frame[c].key
  <1>1. /\ pc[c] = "rb_sample" /\ pc'[c] = "rb_proc"
        /\ \A d \in Calls : d # c => pc'[d] = pc[d]
        /\ frame' = frame /\ samples' = samples \ {k} /\ k \in Keys
    BY DEF RemoveBuildInfo, Goto, TypeOK, Frame
  <1>2. Owns(c, k) /\ \A d \in Calls : d # c => ~Owns(d, k)
    BY <1>1 DEF OwnerInv, Owns
  <1>3. \A d \in Calls : \A x \in Keys : Owns(d, x)' <=> Owns(d, x) /\ d # c
    BY <1>1 DEF Owns
  <1>4. \A x \in Keys : Owns(c, x) => x = k
    BY DEF Owns
  <1>5. \A d \in Calls : pc[d] # "sample"
    BY <1>1 DEF OwnershipInv
  <1>6. (\A x \in Keys : \A d, e \in Calls : Owns(d, x) /\ Owns(e, x) => d = e)'
    BY <1>3 DEF OwnerInv, Keys, Seconds
  <1>7. (\A x \in samples : \E d \in Calls : Owns(d, x))'
    BY <1>1, <1>3, <1>4 DEF OwnerInv, TypeOK
  <1>8. (\A d \in Calls : pc[d] \in BeforeOwning => ~frame[d].wasNew)'
    BY <1>1 DEF OwnerInv, BeforeOwning
  <1>9. (\A d \in Calls : pc[d] = "rb_sample" => frame[d].wasNew)'
    BY <1>1 DEF OwnerInv
  <1>10. (\A d \in Calls : frame[d].wasNew /\ pc[d] \notin {"sample", "rb_proc", "rb_register", "rb_assign", "rb_service", "raised"}
                            => frame[d].key \in samples)'
    BY <1>1, <1>2 DEF OwnerInv, Owns
  <1>11. (\A d \in Calls : pc[d] = "sample" =>
          IF frame[d].wasNew THEN frame[d].key \notin samples ELSE frame[d].key \in samples)'
    BY <1>1, <1>5
  <1> QED
    BY <1>6, <1>7, <1>8, <1>9, <1>10, <1>11 DEF OwnerInv

\* A call past the removal of its sample answers for none.
LEMMA DisownedStep ==
    ASSUME TypeOK, OwnerInv, NEW c \in Calls,
           \/ UnregisterMine(c) \/ ReregisterPrior(c) \/ RestoreCollector(c)
           \/ KeepCollector(c) \/ RestoreService(c)
    PROVE  OwnerInv'
  <1>1. /\ pc[c] \in {"rb_proc", "rb_register", "rb_assign", "rb_service"} /\ pc'[c] \in {"rb_register", "rb_assign", "rb_service", "raised"}
        /\ \A d \in Calls : d # c => pc'[d] = pc[d] /\ frame'[d] = frame[d]
        /\ samples' = samples
    BY DEF UnregisterMine, ReregisterPrior, RestoreCollector, KeepCollector, RestoreService,
           Goto, TypeOK, buildVars
  <1>2. \A d \in Calls : \A x \in Keys : Owns(d, x)' <=> Owns(d, x)
    BY <1>1 DEF Owns
  <1>3. (\A x \in Keys : \A d, e \in Calls : Owns(d, x) /\ Owns(e, x) => d = e)'
    BY <1>2 DEF OwnerInv, Keys, Seconds
  <1>4. (\A x \in samples : \E d \in Calls : Owns(d, x))'
    BY <1>1, <1>2 DEF OwnerInv, TypeOK
  <1>5. (\A d \in Calls : pc[d] \in BeforeOwning => ~frame[d].wasNew)'
    BY <1>1 DEF OwnerInv, BeforeOwning
  <1>6. (\A d \in Calls : pc[d] = "rb_sample" => frame[d].wasNew)'
    BY <1>1 DEF OwnerInv
  <1>7. (\A d \in Calls : frame[d].wasNew /\ pc[d] \notin {"sample", "rb_proc", "rb_register", "rb_assign", "rb_service", "raised"}
                            => frame[d].key \in samples)'
    BY <1>1 DEF OwnerInv
  <1>8. (\A d \in Calls : pc[d] = "sample" =>
          IF frame[d].wasNew THEN frame[d].key \notin samples ELSE frame[d].key \in samples)'
    BY <1>1 DEF OwnerInv
  <1> QED
    BY <1>3, <1>4, <1>5, <1>6, <1>7, <1>8 DEF OwnerInv

\* Registration and rollback of a sample keep OwnerInv.
LEMMA OwnerStep ==
    TypeOK /\ OwnershipInv /\ OwnerInv /\ [Next]_vars => OwnerInv'
  <1> SUFFICES ASSUME TypeOK, OwnershipInv, OwnerInv, [Next]_vars PROVE OwnerInv'
    OBVIOUS
  <1> DEFINE SameSample ==
        /\ \A d \in Calls : frame'[d].wasNew <=> frame[d].wasNew
        /\ \A d \in Calls : frame'[d].key = frame[d].key
  <1>0. frame \in [Calls -> Frame]
    BY DEF TypeOK
  <1>1. ASSUME NEW c \in Calls, NEW a \in Apps, NEW n \in Names,
               AlreadyInstalled(c, a, n) \/ Begin(c, a, n)
        PROVE  OwnerInv'
    <2>1. frame' = [frame EXCEPT ![c].app = a, ![c].name = n]
      BY <1>1 DEF AlreadyInstalled, Begin, Called
    <2>2. SameSample
      BY <1>0, <2>1 DEF Frame
    <2> QED
      BY <1>1, <2>2, OwnerQuiet
         DEF AlreadyInstalled, Begin, Goto, BeforeOwning, buildVars
  <1>2. ASSUME NEW c \in Calls, Advance(c) PROVE OwnerInv'
    <2>1. CASE OwnBuildInfo(c)
      BY <2>1, OwnStep
    <2>2. CASE SetBuildInfo(c)
      BY <2>2, SetStep
    <2>3. CASE \/ MarkInstalled(c) \/ SetService(c) \/ ClaimUnregistered(c)
               \/ ConstructCollector(c) \/ WireApp(c) \/ ExposeConflict(c)
      <3>1. SameSample
        BY <2>3 DEF MarkInstalled, SetService, ClaimUnregistered, ConstructCollector,
                    WireApp, ExposeConflict
      <3> QED
        BY <2>3, <3>1, OwnerQuiet
           DEF MarkInstalled, SetService, ClaimUnregistered, ConstructCollector,
               WireApp, ExposeConflict, Goto, BeforeOwning, buildVars
    <2>4. CASE SnapshotApp(c) \/ PeekService(c) \/ ReuseCollector(c)
      <3>1. CASE SnapshotApp(c)
        <4>1. frame' = [frame EXCEPT ![c].preHooks = hooks[AppOf(c)],
                                      ![c].preRoutes = routes[AppOf(c)]]
          BY <3>1 DEF SnapshotApp
        <4>2. SameSample
          BY <1>0, <4>1 DEF Frame
        <4> QED
          BY <3>1, <4>2, OwnerQuiet DEF SnapshotApp, Goto, BeforeOwning, buildVars
      <3>2. CASE PeekService(c)
        <4>1. frame' = [frame EXCEPT ![c].pre = service]
          BY <3>2 DEF PeekService
        <4>2. SameSample
          BY <1>0, <4>1 DEF Frame
        <4> QED
          BY <3>2, <4>2, OwnerQuiet DEF PeekService, Goto, BeforeOwning, buildVars
      <3>3. CASE ReuseCollector(c)
        <4>1. frame' = [frame EXCEPT ![c].proc = "reused"]
          BY <3>3 DEF ReuseCollector
        <4>2. SameSample
          BY <1>0, <4>1 DEF Frame
        <4> QED
          BY <3>3, <4>2, OwnerQuiet DEF ReuseCollector, Goto, BeforeOwning, buildVars
      <3> QED
        BY <2>4, <3>1, <3>2, <3>3
    <2>5. CASE ClaimCollector(c) \/ RegisterCollector(c)
      <3>1. CASE ClaimCollector(c)
        <4>1. frame' = [frame EXCEPT ![c].prior = collector]
          BY <3>1 DEF ClaimCollector
        <4>2. SameSample
          BY <1>0, <4>1 DEF Frame
        <4> QED
          BY <3>1, <4>2, OwnerQuiet DEF ClaimCollector, Goto, BeforeOwning, buildVars
      <3>2. CASE RegisterCollector(c)
        <4>1. frame' = [frame EXCEPT ![c].proc =
                IF frame[c].prior = NoCall THEN "registered" ELSE "service_swap"]
          BY <3>2 DEF RegisterCollector
        <4>2. SameSample
          BY <1>0, <4>1 DEF Frame
        <4> QED
          BY <3>2, <4>2, OwnerQuiet DEF RegisterCollector, Goto, BeforeOwning, buildVars
      <3> QED
        BY <2>5, <3>1, <3>2
    <2>6. CASE StampBuildInfo(c)
      <3>1. ~frame[c].wasNew
        BY <2>6 DEF StampBuildInfo, Goto, OwnerInv, BeforeOwning
      <3>2. /\ \A d \in Calls : frame'[d].wasNew <=> frame[d].wasNew
            /\ \A d \in Calls : d # c => frame'[d].key = frame[d].key
        BY <1>0, <2>6 DEF StampBuildInfo, Frame
      <3> QED
        BY <2>6, <3>1, <3>2, OwnerQuiet
           DEF StampBuildInfo, Goto, BeforeOwning, buildVars
    <2>7. CASE ExposeRoute(c)
      <3>1. /\ Returned(frame[c]).wasNew = frame[c].wasNew
            /\ Returned(frame[c]).key = frame[c].key
        BY <1>0 DEF Returned, FreshFrame, Frame
      <3>2. SameSample
        BY <1>0, <2>7, <3>1 DEF ExposeRoute
      <3> QED
        BY <2>7, <3>2, OwnerQuiet DEF ExposeRoute, Goto, BeforeOwning, buildVars
    <2> QED
      BY <1>2, <2>1, <2>2, <2>3, <2>4, <2>5, <2>6, <2>7 DEF Advance
  <1>3. ASSUME NEW c \in Calls, Rollback(c) PROVE OwnerInv'
    <2>1. CASE RollbackApp(c) \/ RollbackWiring(c)
      BY <2>1, OwnerQuiet DEF RollbackApp, RollbackWiring, Goto, BeforeOwning, buildVars
    <2>2. CASE KeepBuildInfo(c) \/ DisownBuildInfo(c)
      BY <2>2, RollbackOwnerStep
    <2>3. CASE RemoveBuildInfo(c)
      BY <2>3, RemoveStep
    <2>4. CASE \/ UnregisterMine(c) \/ ReregisterPrior(c) \/ RestoreCollector(c)
               \/ KeepCollector(c) \/ RestoreService(c)
      BY <2>4, DisownedStep
    <2> QED
      BY <1>3, <2>1, <2>2, <2>3, <2>4 DEF Rollback
  <1>4. ASSUME NEW c \in Calls, Raise(c) PROVE OwnerInv'
    BY <1>4, OwnerQuiet, ParametersAssumption DEF Raise, Fallible, BeforeOwning, buildVars
  <1>5. CASE (\E a \in Apps : DropSentinel(a)) \/ Tick \/ Serve \/ UNCHANGED vars
    <2>1. UNCHANGED <<pc, frame, samples>>
      BY <1>5 DEF DropSentinel, Tick, Serve, vars, buildVars
    <2> QED
      BY <2>1 DEF OwnerInv, Owns
  <1> QED
    BY <1>1, <1>2, <1>3, <1>4, <1>5 DEF Next

\* Who answers for which sample, for every run.
LEMMA OwnerInvariant == Spec => [](TypeOK /\ OwnerInv)
  <1>1. Init => OwnerInv
    BY DEF Init, OwnerInv, Owns, FreshFrame
  <1> QED
    BY <1>1, OwnerStep, OwnershipInvariant, PTL DEF Spec

\* Every build_info sample has exactly one call that answers for it, however
\* many calls register and roll back the same label set at the same time.
THEOREM OneOwner == Spec => []EachSampleHasOneOwner
  <1>1. TypeOK /\ OwnerInv => EachSampleHasOneOwner
    BY DEF TypeOK, OwnerInv, EachSampleHasOneOwner
  <1> QED
    BY <1>1, OwnerInvariant, PTL

-----------------------------------------------------------------------------
(* Calls that do not overlap implement InstallTxn.                         *)

\* What the refinement needs: one call at a time, no failure between the two
\* statements of the collector's swap, no sentinel dropped, and no middleware of the
\* host on a FastAPI app, since its rollback would remove that one.
OneAtATime ==
    /\ MaxInFlight = 1
    /\ Raises \cap {"construct", "register"} = {}
    /\ ~Reinit
    /\ \A a \in Apps \ Flask : HostHooks[a] = 0

\* The hooks of an app as the host left it, and with the recorder of call c.
HostList(a) == [i \in 1..HostHooks[a] |-> Host]
WithRecorder(c, a) == AddHook(HostList(a), c, a)

\* An app that no install has wired, and one that call c has.
CleanApp(a) == ~installed[a] /\ hooks[a] = HostList(a) /\ routes[a] = << >>
WiredBy(a, c) ==
    /\ pc[c] # "idle"
    /\ installed[a] /\ hooks[a] = WithRecorder(c, a) /\ routes[a] = <<c>>

Trimmed(n) == n # NoName => Strip[n] = n

\* What holds whether or not a call is in flight.
RestFits ==
    /\ Trimmed(service)
    /\ collector # NoCall => pc[collector] # "idle"
    /\ \A c \in Calls : pc[c] \notin Running =>
         /\ frame[c].pre = NoName /\ frame[c].prior = NoCall
         /\ pc[c] = "idle" => frame[c].proc = "none"
    /\ \A a \in Apps : (\A c \in InFlight : AppOf(c) # a) =>
         CleanApp(a) \/ \E d \in Calls : WiredBy(a, d)

\* The identity is the one to come, and the one to go back to is remembered.
IdentityFits(c) ==
    /\ Trimmed(frame[c].pre)
    /\ pc[c] = "set_service" => service = frame[c].pre
    /\ pc[c] \in Trying \ {"set_service"} => service = Strip[NameOf(c)]

\* The collector is the one to come, and the one to go back to is remembered.
SwapFits(c) ==
    /\ frame[c].prior # NoCall => pc[frame[c].prior] # "idle"
    /\ pc[c] \in {"mark", "snap", "peek", "set_service", "claim", "construct", "register"} =>
         frame[c].proc = "none"
    /\ pc[c] = "construct" => collector = frame[c].prior
    /\ pc[c] \notin {"construct", "register"} /\ frame[c].proc = "none" => frame[c].prior = NoCall
    /\ Installed(c) => collector = IF pc[c] = "rb_service" THEN frame[c].prior ELSE c
    /\ frame[c].proc = "reused" => collector # NoCall /\ NameOf(collector) = NameOf(c)
    /\ pc[c] \in {"claim", "construct", "register"} => ~SkipsCollector(c)
    /\ pc[c] \in {"stamp", "own", "sample", "wire", "expose"} =>
         (frame[c].proc = "none" <=> SkipsCollector(c))

\* The sample is of the service, and gone after a rollback if the call made it.
SampleFits(c) ==
    /\ pc[c] \in {"own", "sample", "wire", "expose"} => frame[c].key[1] = NameOf(c)
    /\ pc[c] \in {"wire", "expose"} => frame[c].key \in samples
    /\ pc[c] \in {"rb_proc", "rb_register", "rb_assign", "rb_service"} /\ frame[c].wasNew => frame[c].key \notin samples

\* The app has the recorder from "wire" on until the rollback of the wiring.
AppFits(c) ==
    LET a == AppOf(c)
    IN  /\ routes[a] = << >>
        /\ installed[a] <=> pc[c] \notin {"mark"} \cup (RollingBack \ {"rb_app"})
        /\ hooks[a] \in IF pc[c] = "expose" THEN {WithRecorder(c, a)}
                        ELSE IF pc[c] \in {"rb_app", "rb_wiring"}
                             THEN {HostList(a), WithRecorder(c, a)} ELSE {HostList(a)}
        /\ pc[c] \notin {"mark", "snap"} =>
             frame[c].preHooks = HostList(a) /\ frame[c].preRoutes = << >>

CallFits(c) == IdentityFits(c) /\ SwapFits(c) /\ SampleFits(c) /\ AppFits(c)

\* What the invariants above say.
Known == TypeOK /\ CollectorInv /\ SingletonAlwaysExposed /\ OwnershipInv /\ OwnerInv

\* What every step keeps, of one call at a time.
SoloInv ==
    /\ \A c, d \in InFlight : c = d
    /\ RestFits
    /\ \A c \in InFlight : CallFits(c)

\* While a call is in flight no other begins.
LEMMA NoneInFlight ==
    ASSUME OneAtATime, \A c, d \in InFlight : c = d, Cardinality(InFlight) < MaxInFlight
    PROVE  InFlight = {}
  <1> SUFFICES ASSUME NEW c \in InFlight PROVE FALSE
    OBVIOUS
  <1>1. InFlight = {c}
    OBVIOUS
  <1>2. Cardinality(InFlight) = 1
    BY <1>1, FS_Singleton
  <1> QED
    BY <1>2 DEF OneAtATime

\* A step of the call in flight, and of no other.
InnerStep(c) == pc[c] \in Running /\ (Advance(c) \/ Rollback(c) \/ Raise(c))

\* The step of a call changes no other, and no name.
LEMMA InnerFacts ==
    ASSUME OneAtATime, Known, Known', SoloInv, NEW c \in Calls, InnerStep(c)
    PROVE  /\ InFlight = {c}
           /\ \A d \in Calls : d # c => pc'[d] = pc[d] /\ frame'[d] = frame[d] /\ pc[d] \notin Running
           /\ \A d \in Calls : NameOf(d)' = NameOf(d) /\ AppOf(d)' = AppOf(d)
           /\ pc'[c] # "idle"
           /\ InFlight' \subseteq {c}
  <1>1. InFlight = {c}
    BY DEF SoloInv, InFlight, InnerStep
  <1>2. \A d \in Calls : d # c => pc[d] \notin Running
    BY <1>1 DEF InFlight
  <1>3. /\ \A d \in Calls : d # c => pc'[d] = pc[d] /\ frame'[d] = frame[d]
        /\ \A d \in Calls : NameOf(d)' = NameOf(d) /\ AppOf(d)' = AppOf(d)
        /\ pc'[c] # "idle"
    <2> USE DEF Known, TypeOK, Goto, NameOf, AppOf, Frame
    <2>1. CASE MarkInstalled(c)
      BY <2>1 DEF MarkInstalled
    <2>2. CASE SnapshotApp(c)
      BY <2>2 DEF SnapshotApp
    <2>3. CASE PeekService(c)
      BY <2>3 DEF PeekService
    <2>4. CASE SetService(c)
      BY <2>4 DEF SetService
    <2>5. CASE ReuseCollector(c)
      <3>1. pc' = [pc EXCEPT ![c] = "stamp"] /\ frame' = [frame EXCEPT ![c].proc = "reused"]
        BY <2>5 DEF ReuseCollector
      <3> QED
        BY <3>1
    <2>6. CASE ClaimCollector(c)
      <3>1. pc' = [pc EXCEPT ![c] = "construct"] /\ frame' = [frame EXCEPT ![c].prior = collector]
        BY <2>6 DEF ClaimCollector
      <3> QED
        BY <3>1
    <2>7. CASE ClaimUnregistered(c)
      BY <2>7 DEF ClaimUnregistered
    <2>8. CASE ConstructCollector(c)
      BY <2>8 DEF ConstructCollector
    <2>9. CASE RegisterCollector(c)
      BY <2>9 DEF RegisterCollector
    <2>10. CASE StampBuildInfo(c)
      BY <2>10 DEF StampBuildInfo
    <2>11. CASE OwnBuildInfo(c)
      BY <2>11 DEF OwnBuildInfo
    <2>12. CASE SetBuildInfo(c)
      BY <2>12 DEF SetBuildInfo
    <2>13. CASE WireApp(c)
      BY <2>13 DEF WireApp
    <2>14. CASE ExposeRoute(c)
      <3>1. Returned(frame[c]).name = frame[c].name /\ Returned(frame[c]).app = frame[c].app
        BY DEF Returned, FreshFrame
      <3>2. frame' = [frame EXCEPT ![c] = Returned(frame[c])]
        BY <2>14 DEF ExposeRoute
      <3> QED
        BY <2>14, <3>1, <3>2 DEF ExposeRoute
    <2>15. CASE ExposeConflict(c)
      BY <2>15 DEF ExposeConflict
    <2>16. CASE RollbackApp(c)
      BY <2>16 DEF RollbackApp
    <2>17. CASE RollbackWiring(c)
      BY <2>17 DEF RollbackWiring
    <2>18. CASE KeepBuildInfo(c)
      BY <2>18 DEF KeepBuildInfo
    <2>19. CASE DisownBuildInfo(c)
      BY <2>19 DEF DisownBuildInfo
    <2>20. CASE RemoveBuildInfo(c)
      BY <2>20 DEF RemoveBuildInfo
    <2>21. CASE RestoreCollector(c)
      BY <2>21 DEF RestoreCollector
    <2>22. CASE KeepCollector(c)
      BY <2>22 DEF KeepCollector
    <2>23. CASE RestoreService(c)
      <3>1. Raised(frame[c]).name = frame[c].name /\ Raised(frame[c]).app = frame[c].app
        BY DEF Raised, FreshFrame
      <3>2. frame' = [frame EXCEPT ![c] = Raised(frame[c])]
        BY <2>23 DEF RestoreService
      <3> QED
        BY <2>23, <3>1, <3>2 DEF RestoreService
    <2>24. CASE Raise(c)
      BY <2>24 DEF Raise
    <2>25. CASE UnregisterMine(c)
      BY <2>25 DEF UnregisterMine
    <2>26. CASE ReregisterPrior(c)
      BY <2>26 DEF ReregisterPrior
    <2> QED
      BY <2>1, <2>2, <2>3, <2>4, <2>5, <2>6, <2>7, <2>8, <2>9, <2>10, <2>11, <2>12,
         <2>13, <2>14, <2>15, <2>16, <2>17, <2>18, <2>19, <2>20, <2>21, <2>22, <2>23, <2>24, <2>25,
         <2>26
      DEF InnerStep, Advance, Rollback
  <1>4. InFlight' \subseteq {c}
    BY <1>2, <1>3 DEF InFlight
  <1> QED
    BY <1>1, <1>2, <1>3, <1>4

\* The step of a call keeps what it knows of the identity,
LEMMA IdentityStep ==
    ASSUME OneAtATime, Known, Known', SoloInv, NEW c \in Calls, InnerStep(c),
           pc'[c] \in Running
    PROVE  IdentityFits(c)'
  <1>0. CallFits(c) /\ RestFits
    BY DEF SoloInv, InnerStep, InFlight
  <1> USE <1>0 DEF CallFits
  <1> USE DEF IdentityFits, RestFits, Trimmed, Known, TypeOK, Goto, NameOf, Frame, Running,
          Trying, RollingBack, Fallible
  <1>1. CASE MarkInstalled(c)
    BY <1>1 DEF MarkInstalled
  <1>2. CASE SnapshotApp(c)
    BY <1>2 DEF SnapshotApp
  <1>3. CASE PeekService(c)
    BY <1>3 DEF PeekService
  <1>4. CASE SetService(c)
    BY <1>4, NamesAssumption DEF SetService
  <1>5. CASE ReuseCollector(c)
    BY <1>5 DEF ReuseCollector
  <1>6. CASE ClaimCollector(c)
    BY <1>6 DEF ClaimCollector
  <1>7. CASE ClaimUnregistered(c)
    BY <1>7 DEF ClaimUnregistered
  <1>8. CASE ConstructCollector(c)
    BY <1>8 DEF ConstructCollector
  <1>9. CASE RegisterCollector(c)
    BY <1>9 DEF RegisterCollector
  <1>10. CASE StampBuildInfo(c)
    BY <1>10 DEF StampBuildInfo
  <1>11. CASE OwnBuildInfo(c)
    BY <1>11 DEF OwnBuildInfo
  <1>12. CASE SetBuildInfo(c)
    BY <1>12 DEF SetBuildInfo
  <1>13. CASE WireApp(c)
    BY <1>13 DEF WireApp
  <1>14. CASE ExposeRoute(c)
    BY <1>14 DEF ExposeRoute, Ended
  <1>15. CASE ExposeConflict(c)
    BY <1>15 DEF ExposeConflict
  <1>16. CASE RollbackApp(c)
    BY <1>16 DEF RollbackApp
  <1>17. CASE RollbackWiring(c)
    BY <1>17 DEF RollbackWiring
  <1>18. CASE KeepBuildInfo(c)
    BY <1>18 DEF KeepBuildInfo
  <1>19. CASE DisownBuildInfo(c)
    BY <1>19 DEF DisownBuildInfo
  <1>20. CASE RemoveBuildInfo(c)
    BY <1>20 DEF RemoveBuildInfo
  <1>21. CASE RestoreCollector(c)
    BY <1>21 DEF RestoreCollector
  <1>22. CASE KeepCollector(c)
    BY <1>22 DEF KeepCollector
  <1>23. CASE RestoreService(c)
    BY <1>23 DEF RestoreService
  <1>24. CASE Raise(c)
    BY <1>24, ParametersAssumption DEF Raise
  <1>25. CASE UnregisterMine(c)
    BY <1>25 DEF UnregisterMine
  <1>26. CASE ReregisterPrior(c)
    BY <1>26 DEF ReregisterPrior
  <1> QED
    BY <1>1, <1>2, <1>3, <1>4, <1>5, <1>6, <1>7, <1>8, <1>9, <1>10, <1>11, <1>12,
       <1>13, <1>14, <1>15, <1>16, <1>17, <1>18, <1>19, <1>20, <1>21, <1>22, <1>23, <1>24, <1>25,
       <1>26
    DEF InnerStep, Advance, Rollback

\* of the collector,
LEMMA SwapStep ==
    ASSUME OneAtATime, Known, Known', SoloInv, NEW c \in Calls, InnerStep(c),
           pc'[c] \in Running
    PROVE  SwapFits(c)'
  <1>0. CallFits(c) /\ RestFits
    BY DEF SoloInv, InnerStep, InFlight
  <1>a. \A d \in Calls : pc[d] # "idle" => pc'[d] # "idle"
    BY InnerFacts
  <1>b. \A d \in Calls : NameOf(d)' = NameOf(d) /\ AppOf(d)' = AppOf(d)
    BY InnerFacts
  <1> USE <1>0, <1>a, <1>b DEF CallFits
  <1> USE DEF SwapFits, RestFits, SkipsCollector, Installed, procVars, buildVars, appVars,
          Known, TypeOK, Goto, Frame, Running, Trying, RollingBack, Fallible
  <1>1. CASE MarkInstalled(c)
    BY <1>1 DEF MarkInstalled
  <1>2. CASE SnapshotApp(c)
    BY <1>2 DEF SnapshotApp
  <1>3. CASE PeekService(c)
    BY <1>3 DEF PeekService
  <1>4. CASE SetService(c)
    BY <1>4 DEF SetService
  <1>5. CASE ReuseCollector(c)
    BY <1>5 DEF ReuseCollector
  <1>6. CASE ClaimCollector(c)
    BY <1>6 DEF ClaimCollector, Free
  <1>7. CASE ClaimUnregistered(c)
    BY <1>7 DEF ClaimUnregistered
  <1>8. CASE ConstructCollector(c)
    BY <1>8 DEF ConstructCollector
  <1>9. CASE RegisterCollector(c)
    BY <1>9 DEF RegisterCollector, CollectorInv
  <1>10. CASE StampBuildInfo(c)
    BY <1>10 DEF StampBuildInfo
  <1>11. CASE OwnBuildInfo(c)
    BY <1>11 DEF OwnBuildInfo
  <1>12. CASE SetBuildInfo(c)
    BY <1>12 DEF SetBuildInfo
  <1>13. CASE WireApp(c)
    BY <1>13 DEF WireApp
  <1>14. CASE ExposeRoute(c)
    BY <1>14 DEF ExposeRoute
  <1>15. CASE ExposeConflict(c)
    BY <1>15 DEF ExposeConflict
  <1>16. CASE RollbackApp(c)
    BY <1>16 DEF RollbackApp
  <1>17. CASE RollbackWiring(c)
    BY <1>17 DEF RollbackWiring
  <1>18. CASE KeepBuildInfo(c)
    BY <1>18 DEF KeepBuildInfo
  <1>19. CASE DisownBuildInfo(c)
    BY <1>19 DEF DisownBuildInfo
  <1>20. CASE RemoveBuildInfo(c)
    BY <1>20 DEF RemoveBuildInfo
  <1>21. CASE RestoreCollector(c)
    BY <1>21 DEF RestoreCollector, CollectorInv
  <1>22. CASE KeepCollector(c)
    BY <1>22 DEF KeepCollector, LiveIsMine
  <1>23. CASE RestoreService(c)
    BY <1>23 DEF RestoreService
  <1>24. CASE Raise(c)
    <2>1. /\ pc[c] \in Fallible \ {"construct", "register"} /\ pc'[c] = "rb_app"
          /\ frame' = frame /\ collector' = collector
      BY <1>24, ParametersAssumption DEF Raise, OneAtATime
    <2>2. /\ frame[c].prior \in Calls \cup {NoCall}
          /\ pc[c] # "rb_service"
      BY <2>1
    <2> QED
      BY <2>1, <2>2
  <1>25. CASE UnregisterMine(c)
    BY <1>25 DEF UnregisterMine
  <1>26. CASE ReregisterPrior(c)
    BY <1>26 DEF ReregisterPrior
  <1> QED
    BY <1>1, <1>2, <1>3, <1>4, <1>5, <1>6, <1>7, <1>8, <1>9, <1>10, <1>11, <1>12,
       <1>13, <1>14, <1>15, <1>16, <1>17, <1>18, <1>19, <1>20, <1>21, <1>22, <1>23, <1>24, <1>25,
       <1>26
    DEF InnerStep, Advance, Rollback

\* of its sample,
LEMMA SampleStep ==
    ASSUME OneAtATime, Known, Known', SoloInv, NEW c \in Calls, InnerStep(c),
           pc'[c] \in Running
    PROVE  SampleFits(c)'
  <1>0. CallFits(c) /\ RestFits
    BY DEF SoloInv, InnerStep, InFlight
  <1> USE <1>0 DEF CallFits
  <1> USE DEF SampleFits, RestFits, NameOf, procVars, buildVars, appVars, Known, TypeOK,
          Goto, Frame, Running, Trying, RollingBack, Fallible
  <1>1. CASE MarkInstalled(c)
    BY <1>1 DEF MarkInstalled
  <1>2. CASE SnapshotApp(c)
    BY <1>2 DEF SnapshotApp
  <1>3. CASE PeekService(c)
    BY <1>3 DEF PeekService
  <1>4. CASE SetService(c)
    BY <1>4 DEF SetService
  <1>5. CASE ReuseCollector(c)
    BY <1>5 DEF ReuseCollector
  <1>6. CASE ClaimCollector(c)
    BY <1>6 DEF ClaimCollector
  <1>7. CASE ClaimUnregistered(c)
    BY <1>7 DEF ClaimUnregistered
  <1>8. CASE ConstructCollector(c)
    BY <1>8 DEF ConstructCollector
  <1>9. CASE RegisterCollector(c)
    BY <1>9 DEF RegisterCollector
  <1>10. CASE StampBuildInfo(c)
    BY <1>10 DEF StampBuildInfo
  <1>11. CASE OwnBuildInfo(c)
    BY <1>11 DEF OwnBuildInfo
  <1>12. CASE SetBuildInfo(c)
    BY <1>12 DEF SetBuildInfo
  <1>13. CASE WireApp(c)
    BY <1>13 DEF WireApp
  <1>14. CASE ExposeRoute(c)
    BY <1>14 DEF ExposeRoute
  <1>15. CASE ExposeConflict(c)
    BY <1>15 DEF ExposeConflict
  <1>16. CASE RollbackApp(c)
    BY <1>16 DEF RollbackApp
  <1>17. CASE RollbackWiring(c)
    BY <1>17 DEF RollbackWiring
  <1>18. CASE KeepBuildInfo(c)
    BY <1>18 DEF KeepBuildInfo, RemovesSample
  <1>19. CASE DisownBuildInfo(c)
    BY <1>19 DEF DisownBuildInfo
  <1>20. CASE RemoveBuildInfo(c)
    BY <1>20 DEF RemoveBuildInfo
  <1>21. CASE RestoreCollector(c)
    BY <1>21 DEF RestoreCollector
  <1>22. CASE KeepCollector(c)
    BY <1>22 DEF KeepCollector
  <1>23. CASE RestoreService(c)
    BY <1>23 DEF RestoreService
  <1>24. CASE Raise(c)
    BY <1>24, ParametersAssumption DEF Raise
  <1>25. CASE UnregisterMine(c)
    BY <1>25 DEF UnregisterMine
  <1>26. CASE ReregisterPrior(c)
    BY <1>26 DEF ReregisterPrior
  <1> QED
    BY <1>1, <1>2, <1>3, <1>4, <1>5, <1>6, <1>7, <1>8, <1>9, <1>10, <1>11, <1>12,
       <1>13, <1>14, <1>15, <1>16, <1>17, <1>18, <1>19, <1>20, <1>21, <1>22, <1>23, <1>24, <1>25,
       <1>26
    DEF InnerStep, Advance, Rollback

\* The host's hooks are a list, empty for a FastAPI app.
LEMMA HostListFacts ==
    ASSUME OneAtATime, NEW a \in Apps
    PROVE  /\ HostList(a) \in Seq(Hooks) /\ Len(HostList(a)) = HostHooks[a]
           /\ \A c \in Calls : a \in Flask => WithRecorder(c, a) = Append(HostList(a), c)
           /\ a \notin Flask => HostList(a) = << >>
           /\ \A c \in Calls : a \notin Flask => WithRecorder(c, a) = <<c>>
  <1>1. HostHooks[a] \in Nat
    BY AppsAssumption
  <1>2. HostList(a) \in Seq(Hooks) /\ Len(HostList(a)) = HostHooks[a]
    BY <1>1 DEF HostList, Hooks
  <1>3. a \notin Flask => HostList(a) = << >>
    BY <1>2 DEF OneAtATime
  <1>4. \A c \in Calls : a \notin Flask => <<c>> \o << >> = <<c>>
    OBVIOUS
  <1> QED
    BY <1>2, <1>3, <1>4 DEF WithRecorder, AddHook

\* The rollback of the wiring leaves the app as the host left it.
LEMMA UnwiredFacts ==
    ASSUME OneAtATime, Known, NEW c \in Calls, AppFits(c), pc[c] = "rb_wiring"
    PROVE  Unwired(c).hooks = HostList(AppOf(c)) /\ Unwired(c).routes = << >>
  <1> DEFINE a == AppOf(c)
  <1>1. a \in Apps
    BY DEF Known, TypeOK, Frame, AppOf
  <1>2. /\ routes[a] = << >> /\ hooks[a] \in {HostList(a), WithRecorder(c, a)}
        /\ frame[c].preHooks = HostList(a) /\ frame[c].preRoutes = << >>
    BY DEF AppFits
  <1>3. CASE a \in Flask
    BY <1>2, <1>3 DEF Unwired
  <1>4. CASE a \notin Flask
    <2>1. hooks[a] \in {<< >>, <<c>>} /\ HostList(a) = << >>
      BY <1>1, <1>2, <1>4, HostListFacts
    <2>2. Truncate(<< >>, 0) = << >> /\ Truncate(<<c>>, 0) = << >>
      BY DEF Truncate
    <2>3. Len(frame[c].preHooks) = 0 /\ Len(frame[c].preRoutes) = 0
      BY <1>2, <2>1
    <2> QED
      BY <1>2, <1>4, <2>1, <2>2, <2>3 DEF Unwired
  <1> QED
    BY <1>3, <1>4

\* of its app,
LEMMA AppStep ==
    ASSUME OneAtATime, Known, Known', SoloInv, NEW c \in Calls, InnerStep(c),
           pc'[c] \in Running
    PROVE  AppFits(c)'
  <1>0. AppFits(c) /\ AppOf(c) \in Apps
    BY DEF SoloInv, InnerStep, InFlight, CallFits, Known, TypeOK, Frame, AppOf
  <1>a. AppOf(c)' = AppOf(c)
    BY InnerFacts
  <1> USE <1>0, <1>a
  <1>13. CASE WireApp(c)
    <2>1. hooks[AppOf(c)] = HostList(AppOf(c)) /\ pc[c] = "wire" /\ pc'[c] = "expose"
      BY <1>13 DEF WireApp, AppFits, RollingBack, Known, TypeOK, Goto
    <2>2. hooks'[AppOf(c)] = AddHook(hooks[AppOf(c)], c, AppOf(c))
      BY <1>13 DEF WireApp, Known, TypeOK
    <2>3. hooks'[AppOf(c)] = WithRecorder(c, AppOf(c))
      BY <2>1, <2>2 DEF WithRecorder
    <2>4. UNCHANGED <<routes, installed, frame>>
      BY <1>13 DEF WireApp
    <2> QED
      BY <2>1, <2>3, <2>4 DEF AppFits, RollingBack
  <1>17. CASE RollbackWiring(c)
    <2>1. pc[c] = "rb_wiring" /\ pc'[c] = "rb_build"
      BY <1>17 DEF RollbackWiring, Known, TypeOK, Goto
    <2>2. Unwired(c).hooks = HostList(AppOf(c)) /\ Unwired(c).routes = << >>
      BY <2>1, UnwiredFacts
    <2>3. hooks'[AppOf(c)] = HostList(AppOf(c)) /\ routes'[AppOf(c)] = << >>
      BY <1>17, <2>2 DEF RollbackWiring, Known, TypeOK
    <2>4. UNCHANGED <<installed, frame>>
      BY <1>17 DEF RollbackWiring
    <2> QED
      BY <2>1, <2>3, <2>4 DEF AppFits, RollingBack
  <1> USE DEF AppFits, HostList, WithRecorder, procVars, buildVars, appVars, Known, TypeOK, Goto,
          Frame, Running, Trying, RollingBack, Fallible
  <1>1. CASE MarkInstalled(c)
    BY <1>1 DEF MarkInstalled
  <1>2. CASE SnapshotApp(c)
    BY <1>2 DEF SnapshotApp
  <1>3. CASE PeekService(c)
    BY <1>3 DEF PeekService
  <1>4. CASE SetService(c)
    BY <1>4 DEF SetService
  <1>5. CASE ReuseCollector(c)
    BY <1>5 DEF ReuseCollector
  <1>6. CASE ClaimCollector(c)
    BY <1>6 DEF ClaimCollector
  <1>7. CASE ClaimUnregistered(c)
    BY <1>7 DEF ClaimUnregistered
  <1>8. CASE ConstructCollector(c)
    BY <1>8 DEF ConstructCollector
  <1>9. CASE RegisterCollector(c)
    BY <1>9 DEF RegisterCollector
  <1>10. CASE StampBuildInfo(c)
    BY <1>10 DEF StampBuildInfo
  <1>11. CASE OwnBuildInfo(c)
    BY <1>11 DEF OwnBuildInfo
  <1>12. CASE SetBuildInfo(c)
    BY <1>12 DEF SetBuildInfo
  <1>14. CASE ExposeRoute(c)
    BY <1>14 DEF ExposeRoute
  <1>15. CASE ExposeConflict(c)
    BY <1>15 DEF ExposeConflict
  <1>16. CASE RollbackApp(c)
    BY <1>16 DEF RollbackApp
  <1>18. CASE KeepBuildInfo(c)
    BY <1>18 DEF KeepBuildInfo
  <1>19. CASE DisownBuildInfo(c)
    BY <1>19 DEF DisownBuildInfo
  <1>20. CASE RemoveBuildInfo(c)
    BY <1>20 DEF RemoveBuildInfo
  <1>21. CASE RestoreCollector(c)
    BY <1>21 DEF RestoreCollector
  <1>22. CASE KeepCollector(c)
    BY <1>22 DEF KeepCollector
  <1>23. CASE RestoreService(c)
    BY <1>23 DEF RestoreService
  <1>24. CASE Raise(c)
    BY <1>24, ParametersAssumption DEF Raise
  <1>25. CASE UnregisterMine(c)
    BY <1>25 DEF UnregisterMine
  <1>26. CASE ReregisterPrior(c)
    BY <1>26 DEF ReregisterPrior
  <1> QED
    BY <1>1, <1>2, <1>3, <1>4, <1>5, <1>6, <1>7, <1>8, <1>9, <1>10, <1>11, <1>12,
       <1>13, <1>14, <1>15, <1>16, <1>17, <1>18, <1>19, <1>20, <1>21, <1>22, <1>23, <1>24, <1>25,
       <1>26
    DEF InnerStep, Advance, Rollback

\* A call ends by returning from its last statement, or at the end of its rollback.
LEMMA EndsBy ==
    ASSUME OneAtATime, Known, Known', SoloInv, NEW c \in Calls, InnerStep(c),
           pc'[c] \notin Running
    PROVE  ExposeRoute(c) \/ RestoreService(c)
  <1> USE DEF Known, TypeOK, Goto, Running, Trying, RollingBack, Fallible
  <1>1. CASE MarkInstalled(c)
    BY <1>1 DEF MarkInstalled
  <1>2. CASE SnapshotApp(c)
    BY <1>2 DEF SnapshotApp
  <1>3. CASE PeekService(c)
    BY <1>3 DEF PeekService
  <1>4. CASE SetService(c)
    BY <1>4 DEF SetService
  <1>5. CASE ReuseCollector(c)
    BY <1>5 DEF ReuseCollector
  <1>6. CASE ClaimCollector(c)
    BY <1>6 DEF ClaimCollector
  <1>7. CASE ClaimUnregistered(c)
    BY <1>7 DEF ClaimUnregistered
  <1>8. CASE ConstructCollector(c)
    BY <1>8 DEF ConstructCollector
  <1>9. CASE RegisterCollector(c)
    BY <1>9 DEF RegisterCollector
  <1>10. CASE StampBuildInfo(c)
    BY <1>10 DEF StampBuildInfo
  <1>11. CASE OwnBuildInfo(c)
    BY <1>11 DEF OwnBuildInfo
  <1>12. CASE SetBuildInfo(c)
    BY <1>12 DEF SetBuildInfo
  <1>13. CASE WireApp(c)
    BY <1>13 DEF WireApp
  <1>14. CASE ExposeRoute(c)
    BY <1>14 DEF ExposeRoute
  <1>15. CASE ExposeConflict(c)
    BY <1>15 DEF ExposeConflict
  <1>16. CASE RollbackApp(c)
    BY <1>16 DEF RollbackApp
  <1>17. CASE RollbackWiring(c)
    BY <1>17 DEF RollbackWiring
  <1>18. CASE KeepBuildInfo(c)
    BY <1>18 DEF KeepBuildInfo
  <1>19. CASE DisownBuildInfo(c)
    BY <1>19 DEF DisownBuildInfo
  <1>20. CASE RemoveBuildInfo(c)
    BY <1>20 DEF RemoveBuildInfo
  <1>21. CASE RestoreCollector(c)
    BY <1>21 DEF RestoreCollector
  <1>22. CASE KeepCollector(c)
    BY <1>22 DEF KeepCollector
  <1>23. CASE RestoreService(c)
    BY <1>23 DEF RestoreService
  <1>24. CASE Raise(c)
    BY <1>24, ParametersAssumption DEF Raise
  <1>25. CASE UnregisterMine(c)
    BY <1>25 DEF UnregisterMine
  <1>26. CASE ReregisterPrior(c)
    BY <1>26 DEF ReregisterPrior
  <1> QED
    BY <1>1, <1>2, <1>3, <1>4, <1>5, <1>6, <1>7, <1>8, <1>9, <1>10, <1>11, <1>12,
       <1>13, <1>14, <1>15, <1>16, <1>17, <1>18, <1>19, <1>20, <1>21, <1>22, <1>23, <1>24, <1>25,
       <1>26
    DEF InnerStep, Advance, Rollback

\* No call touches another app.
LEMMA OtherApps ==
    ASSUME OneAtATime, Known, Known', SoloInv, NEW c \in Calls, InnerStep(c)
    PROVE  \A a \in Apps \ {AppOf(c)} : UNCHANGED <<installed[a], hooks[a], routes[a]>>
  <1> USE DEF Known, TypeOK, Goto, appVars
  <1>1. CASE MarkInstalled(c)
    BY <1>1 DEF MarkInstalled
  <1>2. CASE SnapshotApp(c)
    BY <1>2 DEF SnapshotApp
  <1>3. CASE PeekService(c)
    BY <1>3 DEF PeekService
  <1>4. CASE SetService(c)
    BY <1>4 DEF SetService
  <1>5. CASE ReuseCollector(c)
    BY <1>5 DEF ReuseCollector
  <1>6. CASE ClaimCollector(c)
    BY <1>6 DEF ClaimCollector
  <1>7. CASE ClaimUnregistered(c)
    BY <1>7 DEF ClaimUnregistered
  <1>8. CASE ConstructCollector(c)
    BY <1>8 DEF ConstructCollector
  <1>9. CASE RegisterCollector(c)
    BY <1>9 DEF RegisterCollector
  <1>10. CASE StampBuildInfo(c)
    BY <1>10 DEF StampBuildInfo
  <1>11. CASE OwnBuildInfo(c)
    BY <1>11 DEF OwnBuildInfo
  <1>12. CASE SetBuildInfo(c)
    BY <1>12 DEF SetBuildInfo
  <1>13. CASE WireApp(c)
    BY <1>13 DEF WireApp
  <1>14. CASE ExposeRoute(c)
    BY <1>14 DEF ExposeRoute
  <1>15. CASE ExposeConflict(c)
    BY <1>15 DEF ExposeConflict
  <1>16. CASE RollbackApp(c)
    BY <1>16 DEF RollbackApp
  <1>17. CASE RollbackWiring(c)
    BY <1>17 DEF RollbackWiring
  <1>18. CASE KeepBuildInfo(c)
    BY <1>18 DEF KeepBuildInfo
  <1>19. CASE DisownBuildInfo(c)
    BY <1>19 DEF DisownBuildInfo
  <1>20. CASE RemoveBuildInfo(c)
    BY <1>20 DEF RemoveBuildInfo
  <1>21. CASE RestoreCollector(c)
    BY <1>21 DEF RestoreCollector
  <1>22. CASE KeepCollector(c)
    BY <1>22 DEF KeepCollector
  <1>23. CASE RestoreService(c)
    BY <1>23 DEF RestoreService
  <1>24. CASE Raise(c)
    BY <1>24 DEF Raise
  <1>25. CASE UnregisterMine(c)
    BY <1>25 DEF UnregisterMine
  <1>26. CASE ReregisterPrior(c)
    BY <1>26 DEF ReregisterPrior
  <1> QED
    BY <1>1, <1>2, <1>3, <1>4, <1>5, <1>6, <1>7, <1>8, <1>9, <1>10, <1>11, <1>12,
       <1>13, <1>14, <1>15, <1>16, <1>17, <1>18, <1>19, <1>20, <1>21, <1>22, <1>23, <1>24, <1>25,
       <1>26
    DEF InnerStep, Advance, Rollback

\* An app that a call leaves is wired in full, or clean again.
LEMMA AppLeft ==
    ASSUME OneAtATime, Known, Known', SoloInv, NEW c \in Calls, InnerStep(c),
           pc'[c] \notin Running
    PROVE  CleanApp(AppOf(c))' \/ WiredBy(AppOf(c), c)'
  <1>0. AppFits(c) /\ AppOf(c) \in Apps /\ AppOf(c)' = AppOf(c)
    BY InnerFacts DEF SoloInv, InnerStep, InFlight, CallFits, Known, TypeOK, Frame, AppOf
  <1>1. CASE ExposeRoute(c)
    <2>1. /\ pc[c] = "expose" /\ pc'[c] = "done"
          /\ routes'[AppOf(c)] = Append(routes[AppOf(c)], c)
          /\ UNCHANGED <<installed, hooks>>
      BY <1>0, <1>1 DEF ExposeRoute, Goto, Known, TypeOK
    <2>2. routes'[AppOf(c)] = <<c>>
      BY <1>0, <2>1 DEF AppFits
    <2> QED
      BY <1>0, <2>1, <2>2 DEF AppFits, WiredBy, RollingBack
  <1>2. CASE RestoreService(c)
    <2>1. pc[c] = "rb_service" /\ UNCHANGED <<installed, hooks, routes>>
      BY <1>2 DEF RestoreService, Goto, appVars
    <2> QED
      BY <1>0, <2>1 DEF AppFits, CleanApp, RollingBack
  <1> QED
    BY <1>1, <1>2, EndsBy

\* What holds at rest holds again after each step of a call.
LEMMA AppsStep ==
    ASSUME OneAtATime, Known, Known', SoloInv, NEW c \in Calls, InnerStep(c), NEW a \in Apps,
           \A d \in InFlight' : AppOf(d)' # a
    PROVE  CleanApp(a)' \/ \E d \in Calls : WiredBy(a, d)'
  <1>1. CASE a = AppOf(c)
    <2>1. AppOf(c)' = a /\ pc'[c] \in {"idle"} \cup Running \cup Ended
      BY <1>1, InnerFacts DEF Known, TypeOK
    <2>2. pc'[c] \notin Running
      BY <2>1 DEF InFlight
    <2> QED
      BY <2>1, <2>2, AppLeft DEF CleanApp, WiredBy
  <1>2. CASE a # AppOf(c)
    <2>1. UNCHANGED <<installed[a], hooks[a], routes[a]>>
      BY <1>2, OtherApps
    <2>2. \A d \in InFlight : AppOf(d) # a
      BY <1>2, InnerFacts
    <2>3. CleanApp(a) \/ \E d \in Calls : WiredBy(a, d)
      BY <2>2 DEF SoloInv, RestFits
    <2>4. \A d \in Calls : pc[d] # "idle" => pc'[d] # "idle"
      BY InnerFacts
    <2> QED
      BY <2>1, <2>3, <2>4 DEF CleanApp, WiredBy
  <1> QED
    BY <1>1, <1>2

\* The identity stays trimmed, and the collector one of a call that has begun.
LEMMA SharedStep ==
    ASSUME OneAtATime, Known, Known', SoloInv, NEW c \in Calls, InnerStep(c)
    PROVE  Trimmed(service)' /\ (collector # NoCall => pc[collector] # "idle")'
  <1>0. CallFits(c) /\ RestFits
    BY DEF SoloInv, InnerStep, InFlight
  <1>a. \A d \in Calls : pc[d] # "idle" => pc'[d] # "idle"
    BY InnerFacts
  <1>b. pc'[c] # "idle"
    BY InnerFacts
  <1> USE <1>0, <1>a, <1>b
  <1> USE DEF CallFits, IdentityFits, SwapFits, RestFits, Trimmed, procVars, Known, TypeOK,
          Goto, Frame, NameOf
  <1>1. CASE MarkInstalled(c)
    BY <1>1 DEF MarkInstalled
  <1>2. CASE SnapshotApp(c)
    BY <1>2 DEF SnapshotApp
  <1>3. CASE PeekService(c)
    BY <1>3 DEF PeekService
  <1>4. CASE SetService(c)
    BY <1>4, NamesAssumption DEF SetService
  <1>5. CASE ReuseCollector(c)
    BY <1>5 DEF ReuseCollector
  <1>6. CASE ClaimCollector(c)
    BY <1>6 DEF ClaimCollector
  <1>7. CASE ClaimUnregistered(c)
    BY <1>7 DEF ClaimUnregistered
  <1>8. CASE ConstructCollector(c)
    BY <1>8 DEF ConstructCollector
  <1>9. CASE RegisterCollector(c)
    BY <1>9 DEF RegisterCollector
  <1>10. CASE StampBuildInfo(c)
    BY <1>10 DEF StampBuildInfo
  <1>11. CASE OwnBuildInfo(c)
    BY <1>11 DEF OwnBuildInfo
  <1>12. CASE SetBuildInfo(c)
    BY <1>12 DEF SetBuildInfo
  <1>13. CASE WireApp(c)
    BY <1>13 DEF WireApp
  <1>14. CASE ExposeRoute(c)
    BY <1>14 DEF ExposeRoute
  <1>15. CASE ExposeConflict(c)
    BY <1>15 DEF ExposeConflict
  <1>16. CASE RollbackApp(c)
    BY <1>16 DEF RollbackApp
  <1>17. CASE RollbackWiring(c)
    BY <1>17 DEF RollbackWiring
  <1>18. CASE KeepBuildInfo(c)
    BY <1>18 DEF KeepBuildInfo
  <1>19. CASE DisownBuildInfo(c)
    BY <1>19 DEF DisownBuildInfo
  <1>20. CASE RemoveBuildInfo(c)
    BY <1>20 DEF RemoveBuildInfo
  <1>21. CASE RestoreCollector(c)
    BY <1>21 DEF RestoreCollector, Installed, LiveIsMine
  <1>22. CASE KeepCollector(c)
    BY <1>22 DEF KeepCollector
  <1>23. CASE RestoreService(c)
    BY <1>23, NamesAssumption DEF RestoreService
  <1>24. CASE Raise(c)
    BY <1>24 DEF Raise
  <1>25. CASE UnregisterMine(c)
    BY <1>25 DEF UnregisterMine
  <1>26. CASE ReregisterPrior(c)
    BY <1>26 DEF ReregisterPrior
  <1> QED
    BY <1>1, <1>2, <1>3, <1>4, <1>5, <1>6, <1>7, <1>8, <1>9, <1>10, <1>11, <1>12,
       <1>13, <1>14, <1>15, <1>16, <1>17, <1>18, <1>19, <1>20, <1>21, <1>22, <1>23, <1>24, <1>25,
       <1>26
    DEF InnerStep, Advance, Rollback

\* A call that is over has forgotten its locals.
LEMMA LocalsForgotten ==
    ASSUME OneAtATime, Known, Known', SoloInv, NEW c \in Calls, InnerStep(c), NEW d \in Calls,
           pc'[d] \notin Running
    PROVE  /\ frame'[d].pre = NoName /\ frame'[d].prior = NoCall
           /\ pc'[d] = "idle" => frame'[d].proc = "none"
  <1>1. CASE d = c
    <2>1. frame'[c] \in {Returned(frame[c]), Raised(frame[c])}
      BY <1>1, EndsBy DEF ExposeRoute, RestoreService, Known, TypeOK
    <2>2. frame'[c] = Raised(frame[c]) /\ frame[c].proc = "none" => frame[c].prior = NoCall
      <3>1. CASE RestoreService(c)
        BY <3>1 DEF RestoreService, Goto, SoloInv, CallFits, SwapFits, InFlight, InnerStep
      <3>2. CASE ExposeRoute(c)
        BY <3>2 DEF ExposeRoute, Goto, SoloInv, CallFits, SwapFits, InFlight, InnerStep
      <3> QED
        BY <1>1, <3>1, <3>2, EndsBy
    <2> QED
      BY <1>1, <2>1, <2>2, InnerFacts DEF Returned, Raised, FreshFrame
  <1>2. CASE d # c
    BY <1>2, InnerFacts DEF SoloInv, RestFits
  <1> QED
    BY <1>1, <1>2

\* A step of the call in flight keeps the invariant.
LEMMA InnerSolo ==
    ASSUME OneAtATime, Known, Known', SoloInv, NEW c \in Calls, InnerStep(c)
    PROVE  SoloInv'
  <1>1. InFlight' \subseteq {c}
    BY InnerFacts
  <1>2. RestFits'
    BY SharedStep, LocalsForgotten, AppsStep DEF RestFits
  <1>3. c \in InFlight' => CallFits(c)'
    BY IdentityStep, SwapStep, SampleStep, AppStep DEF CallFits, InFlight
  <1> QED
    BY <1>1, <1>2, <1>3 DEF SoloInv

\* A call that begins, or finds the app installed, does so with none in flight.
LEMMA CalledFacts ==
    ASSUME OneAtATime, Known, SoloInv, NEW c \in Calls, NEW a \in Apps, NEW n \in Names,
           AlreadyInstalled(c, a, n) \/ Begin(c, a, n)
    PROVE  /\ InFlight = {} /\ InFlight' \subseteq {c}
           /\ pc[c] = "idle" /\ pc'[c] \in {"noop", "mark"}
           /\ pc'[c] = "mark" => ~installed[a]
           /\ \A d \in Calls : pc[d] # "idle" =>
                d # c /\ pc'[d] = pc[d] /\ frame'[d] = frame[d]
           /\ \A d \in Calls \ {c} : pc'[d] = pc[d] /\ frame'[d] = frame[d]
           /\ frame'[c].app = a /\ frame'[c].pre = frame[c].pre
           /\ frame'[c].proc = frame[c].proc /\ frame'[c].prior = frame[c].prior
           /\ UNCHANGED <<service, procVars, buildVars, appVars>>
  <1>1. InFlight = {}
    BY NoneInFlight DEF AlreadyInstalled, Begin, Called, SoloInv
  <1>2. /\ pc[c] = "idle" /\ pc'[c] \in {"noop", "mark"}
        /\ pc'[c] = "mark" => ~installed[a]
        /\ \A d \in Calls \ {c} : pc'[d] = pc[d]
    BY DEF AlreadyInstalled, Begin, NotInstalled, Goto, Known, TypeOK
  <1>3. Called(c, a, n) /\ frame \in [Calls -> Frame]
    BY DEF AlreadyInstalled, Begin, Known, TypeOK
  <1>4. /\ \A d \in Calls \ {c} : frame'[d] = frame[d]
        /\ frame'[c].app = a /\ frame'[c].pre = frame[c].pre
        /\ frame'[c].proc = frame[c].proc /\ frame'[c].prior = frame[c].prior
    BY <1>3 DEF Called, Frame
  <1>5. InFlight' \subseteq {c}
    BY <1>1, <1>2 DEF InFlight
  <1>6. UNCHANGED <<service, procVars, buildVars, appVars>>
    BY DEF AlreadyInstalled, Begin
  <1> QED
    BY <1>1, <1>2, <1>4, <1>5, <1>6

\* A call that begins finds the app clean, and knows nothing yet.
LEMMA CalledSolo ==
    ASSUME OneAtATime, Known, SoloInv, NEW c \in Calls, NEW a \in Apps, NEW n \in Names,
           AlreadyInstalled(c, a, n) \/ Begin(c, a, n)
    PROVE  SoloInv'
  <1> USE CalledFacts
  <1>1. Trimmed(service)' /\ (collector # NoCall => pc[collector] # "idle")'
    <2>1. UNCHANGED <<service, collector>>
      BY DEF procVars
    <2>2. \A d \in Calls : pc[d] # "idle" => pc'[d] = pc[d]
      OBVIOUS
    <2>3. Trimmed(service) /\ (collector # NoCall => collector \in Calls /\ pc[collector] # "idle")
      BY DEF SoloInv, RestFits, Known, TypeOK
    <2> QED
      BY <2>1, <2>2, <2>3 DEF Trimmed
  <1>2. \A d \in Calls :
          frame'[d].pre = frame[d].pre /\ frame'[d].proc = frame[d].proc
            /\ frame'[d].prior = frame[d].prior /\ pc[d] \notin Running
    BY DEF InFlight
  <1>3. \A d \in Calls :
          /\ frame'[d].pre = NoName /\ frame'[d].prior = NoCall
          /\ d = c \/ pc[d] = "idle" => frame'[d].proc = "none"
    BY <1>2 DEF SoloInv, RestFits
  <1>4. \A b \in Apps : CleanApp(b) \/ \E d \in Calls : WiredBy(b, d)
    BY DEF SoloInv, RestFits
  <1>5. \A b \in Apps : CleanApp(b)' \/ \E d \in Calls : WiredBy(b, d)'
    BY <1>4 DEF CleanApp, WiredBy, appVars
  <1>6. RestFits'
    BY <1>1, <1>3, <1>5 DEF RestFits
  <1>7. ASSUME pc'[c] = "mark" PROVE CallFits(c)'
    <2>1. CleanApp(a) /\ AppOf(c)' = a
      BY <1>4, <1>7 DEF WiredBy, AppOf
    <2>2. AppFits(c)'
      BY <1>7, <2>1 DEF AppFits, CleanApp, appVars, RollingBack
    <2>3. IdentityFits(c)' /\ SwapFits(c)' /\ SampleFits(c)'
      BY <1>3, <1>7
      DEF IdentityFits, SwapFits, SampleFits, Trimmed, Trying, Fallible, Installed
    <2> QED
      BY <2>2, <2>3 DEF CallFits
  <1>8. c \in InFlight' => pc'[c] = "mark"
    BY DEF InFlight, Running, Trying, RollingBack, Fallible
  <1> QED
    BY <1>6, <1>7, <1>8 DEF SoloInv

\* What is known of the calls is theirs alone.
LEMMA CalmSolo ==
    ASSUME SoloInv,
           UNCHANGED <<service, collector, buildVars, appVars, pc, frame>>
    PROVE  SoloInv'
  <1>1. InFlight' = InFlight
    BY DEF InFlight
  <1>2. RestFits'
    BY <1>1 DEF SoloInv, RestFits, Trimmed, CleanApp, WiredBy, AppOf, appVars
  <1>3. ASSUME NEW c \in InFlight PROVE CallFits(c)'
    <2>1. CallFits(c)
      BY DEF SoloInv
    <2>2. AppFits(c)'
      BY <2>1 DEF CallFits, AppFits, AppOf, appVars
    <2>3. IdentityFits(c)' /\ SwapFits(c)' /\ SampleFits(c)'
      BY <2>1
      DEF CallFits, IdentityFits, SwapFits, SampleFits, Trimmed, Installed, NameOf, AppOf,
          SkipsCollector, buildVars
    <2> QED
      BY <2>2, <2>3 DEF CallFits
  <1> QED
    BY <1>1, <1>2, <1>3 DEF SoloInv

\* The steps of the system, by who takes them.
LEMMA StepCases ==
    ASSUME OneAtATime, Known, [Next]_vars
    PROVE  \/ \E c \in Calls, a \in Apps, n \in Names : AlreadyInstalled(c, a, n) \/ Begin(c, a, n)
           \/ \E c \in Calls : InnerStep(c)
           \/ UNCHANGED <<service, collector, exposed, buildVars, appVars, pc, frame>>
  <1>1. ASSUME NEW c \in Calls, Advance(c) \/ Rollback(c) \/ Raise(c) PROVE pc[c] \in Running
    <2> USE DEF Goto, Running, Trying, RollingBack, Fallible
    <2>1. CASE Advance(c)
      BY <2>1 DEF Advance, MarkInstalled, SnapshotApp, PeekService, SetService, ReuseCollector,
         ClaimCollector, ClaimUnregistered, ConstructCollector, RegisterCollector,
         StampBuildInfo, OwnBuildInfo, SetBuildInfo, WireApp, ExposeRoute, ExposeConflict
    <2>2. CASE Rollback(c)
      BY <2>2 DEF Rollback, RollbackApp, RollbackWiring, KeepBuildInfo, DisownBuildInfo,
         RemoveBuildInfo, UnregisterMine, ReregisterPrior, RestoreCollector, KeepCollector,
         RestoreService
    <2>3. CASE Raise(c)
      BY <2>3, ParametersAssumption DEF Raise
    <2> QED
      BY <1>1, <2>1, <2>2, <2>3
  <1>2. CASE (\E a \in Apps : DropSentinel(a)) \/ Tick \/ Serve \/ UNCHANGED vars
    BY <1>2 DEF DropSentinel, Tick, Serve, vars, procVars, OneAtATime
  <1> QED
    BY <1>1, <1>2 DEF Next, InnerStep

\* One call at a time keeps the invariant.
LEMMA SoloStep ==
    ASSUME OneAtATime, Known, Known', SoloInv, [Next]_vars
    PROVE  SoloInv'
  BY StepCases, CalledSolo, InnerSolo, CalmSolo

\* Nothing has happened at first.
LEMMA SoloInit ==
    ASSUME Init
    PROVE  SoloInv
  <1>1. InFlight = {}
    BY DEF Init, InFlight, Running, Trying, RollingBack, Fallible
  <1>2. \A a \in Apps : CleanApp(a)
    BY DEF Init, CleanApp, HostList
  <1>3. \A c \in Calls : frame[c].pre = NoName /\ frame[c].proc = "none" /\ frame[c].prior = NoCall
    BY DEF Init, FreshFrame
  <1>4. Trimmed(service) /\ collector = NoCall
    BY DEF Init, Trimmed
  <1> QED
    BY <1>1, <1>2, <1>3, <1>4 DEF SoloInv, RestFits

\* The invariants of this module hold together.
LEMMA KnownInvariant ==
    ASSUME OneAtATime
    PROVE  Spec => []Known
  <1>1. Raises \cap {"construct", "register"} = {}
    BY DEF OneAtATime
  <1>2. Spec => []SingletonAlwaysExposed
    BY <1>1, SingletonAlways
  <1>3. Known <=> TypeOK /\ CollectorInv /\ SingletonAlwaysExposed /\ OwnershipInv /\ OwnerInv
    BY DEF Known
  <1> QED
    BY <1>2, <1>3, CollectorInvariant, OwnershipInvariant, OwnerInvariant, PTL

\* The invariant of one call at a time.
LEMMA SoloInvariant ==
    ASSUME OneAtATime
    PROVE  Spec => [](Known /\ SoloInv)
  <1>1. Init => SoloInv
    BY SoloInit
  <1>2. Known /\ Known' /\ SoloInv /\ [Next]_vars => SoloInv'
    BY SoloStep
  <1> QED
    BY <1>1, <1>2, KnownInvariant, PTL DEF Spec

-----------------------------------------------------------------------------
(* The state that a rollback would restore.                                *)

\* The service of a collector, if there is one.
ServiceOf(x) == IF x = NoCall THEN NoName ELSE NameOf(x)

\* What a rollback of call c would leave: the identity, the collector, the samples.
KeptIdentity(c) == IF pc[c] \in {"mark", "snap", "peek"} THEN service ELSE frame[c].pre
KeptCollector(c) ==
    IF pc[c] \in {"construct", "register"} \/ Installed(c) THEN frame[c].prior ELSE collector
KeptSamples(c) == IF frame[c].wasNew THEN samples \ {frame[c].key} ELSE samples

\* The service that labels a registry with one collector at most.
LabelOf(live) == IF live = {} THEN NoName ELSE NameOf(CHOOSE c \in live : TRUE)

LEMMA OneLabel ==
    ASSUME NEW x
    PROVE  LabelOf({x} \ {NoCall}) = ServiceOf(x)
  BY DEF LabelOf, ServiceOf

\* With no call in flight, what is committed is what there is.
LEMMA ViewAtRest ==
    OneAtATime /\ Known /\ SoloInv /\ InFlight = {} =>
      /\ CommittedIdentity = service
      /\ CommittedExposed = ServiceOf(collector)
      /\ CommittedBuilds = samples
  <1> SUFFICES ASSUME OneAtATime, Known, SoloInv, InFlight = {}
               PROVE  /\ CommittedIdentity = service
                      /\ CommittedExposed = ServiceOf(collector)
                      /\ CommittedBuilds = samples
    OBVIOUS
  <1>1. \A c \in Calls : pc[c] \notin Inside
    BY DEF InFlight, Running, Trying, RollingBack, Fallible, Inside
  <1>2. procLock = NoCall
    BY <1>1 DEF Known, CollectorInv, TypeOK
  <1>3. exposed = {collector} \ {NoCall}
    BY <1>2 DEF Known, SingletonAlwaysExposed
  <1>4. CommittedExposed = ServiceOf(collector)
    BY <1>3 DEF CommittedExposed, ServiceOf
  <1> QED
    BY <1>4 DEF CommittedIdentity, CommittedBuilds

\* With a call in flight, what is committed is what its rollback would leave.
LEMMA ViewInFlight ==
    OneAtATime /\ Known /\ SoloInv =>
      \A c \in Calls : InFlight = {c} =>
        /\ CommittedIdentity = KeptIdentity(c)
        /\ CommittedExposed = ServiceOf(KeptCollector(c))
        /\ CommittedBuilds = KeptSamples(c)
  <1> SUFFICES ASSUME OneAtATime, Known, SoloInv, NEW c \in Calls, InFlight = {c}
               PROVE  /\ CommittedIdentity = KeptIdentity(c)
                      /\ CommittedExposed = ServiceOf(KeptCollector(c))
                      /\ CommittedBuilds = KeptSamples(c)
    OBVIOUS
  <1>1. Current = c
    BY DEF Current
  <1>2. CommittedIdentity = KeptIdentity(c)
    BY <1>1 DEF CommittedIdentity, KeptIdentity
  <1>3. CommittedBuilds = KeptSamples(c)
    <2>1. {d \in InFlight : frame[d].wasNew} = IF frame[c].wasNew THEN {c} ELSE {}
      OBVIOUS
    <2> QED
      BY <2>1 DEF CommittedBuilds, KeptSamples
  <1>4. CASE pc[c] \in {"construct", "register"} \/ Installed(c)
    <2>1. CommittedExposed = LabelOf({frame[c].prior} \ {NoCall})
      BY <1>1, <1>4 DEF CommittedExposed, LabelOf
    <2> QED
      BY <1>2, <1>3, <1>4, <2>1, OneLabel DEF KeptCollector
  <1>5. CASE ~(pc[c] \in {"construct", "register"} \/ Installed(c))
    <2>1. \A d \in Calls : pc[d] \notin Inside
      BY <1>5 DEF InFlight, Running, Trying, RollingBack, Fallible, Inside, Known, CollectorInv
    <2>2. procLock = NoCall
      BY <2>1 DEF Known, CollectorInv, TypeOK
    <2>3. exposed = {collector} \ {NoCall}
      BY <2>2 DEF Known, SingletonAlwaysExposed
    <2>4. CommittedExposed = LabelOf({collector} \ {NoCall})
      BY <1>1, <1>5, <2>3 DEF CommittedExposed, LabelOf
    <2> QED
      BY <1>2, <1>3, <1>5, <2>4, OneLabel DEF KeptCollector
  <1> QED
    BY <1>2, <1>3, <1>4, <1>5

\* The host's hooks are not recorders, and a recorder is the only one.
LEMMA RecordersFacts ==
    ASSUME OneAtATime, NEW a \in Apps
    PROVE  /\ hooks[a] = HostList(a) => Recorders(a) = {} /\ HostIntact(a)
           /\ \A c \in Calls : hooks[a] = WithRecorder(c, a) =>
                HostIntact(a) /\ \E i \in DOMAIN hooks[a] : Recorders(a) = {i} /\ hooks[a][i] = c
  <1>0. HostHooks[a] \in Nat /\ Host \notin Calls
    BY AppsAssumption, CallsAssumption
  <1>1. ASSUME hooks[a] = HostList(a) PROVE Recorders(a) = {} /\ HostIntact(a)
    <2>1. \A i \in DOMAIN hooks[a] : hooks[a][i] = Host
      BY <1>0, <1>1 DEF HostList
    <2>2. Recorders(a) = {}
      BY <2>1 DEF Recorders
    <2>3. Cardinality(Recorders(a)) = 0
      BY <2>2, FS_EmptySet
    <2> QED
      BY <1>0, <1>1, <2>2, <2>3, HostListFacts DEF HostIntact
  <1>2. ASSUME NEW c \in Calls, hooks[a] = WithRecorder(c, a)
        PROVE  HostIntact(a) /\ \E i \in DOMAIN hooks[a] : Recorders(a) = {i} /\ hooks[a][i] = c
    <2> DEFINE n == HostHooks[a] + 1
    <2>1. /\ DOMAIN hooks[a] = 1..n /\ Len(hooks[a]) = n /\ hooks[a][n] = c
          /\ \A i \in 1..HostHooks[a] : hooks[a][i] = Host
      <3>1. CASE a \in Flask
        <4>1. hooks[a] = Append(HostList(a), c)
          BY <1>2, <3>1, HostListFacts
        <4>2. HostList(a) \in Seq(Hooks) /\ Len(HostList(a)) = HostHooks[a] /\ c \in Hooks
          BY HostListFacts DEF Hooks
        <4>3. \A i \in 1..HostHooks[a] : HostList(a)[i] = Host
          BY DEF HostList
        <4> QED
          BY <1>0, <4>1, <4>2, <4>3
      <3>2. CASE a \notin Flask
        <4>1. hooks[a] = <<c>> /\ HostHooks[a] = 0
          BY <1>2, <3>2, HostListFacts DEF OneAtATime
        <4> QED
          BY <4>1
      <3> QED
        BY <3>1, <3>2
    <2>2. Recorders(a) = {n}
      BY <1>0, <2>1 DEF Recorders
    <2>3. Cardinality(Recorders(a)) = 1
      BY <2>2, FS_Singleton
    <2>4. n \in DOMAIN hooks[a]
      BY <1>0, <2>1
    <2>5. HostIntact(a)
      BY <1>0, <2>1, <2>3 DEF HostIntact
    <2>6. \E i \in DOMAIN hooks[a] : Recorders(a) = {i} /\ hooks[a][i] = c
      <3> HIDE DEF n
      <3> QED
        BY <2>1, <2>2, <2>4
    <2> QED
      BY <2>5, <2>6
  <1> QED
    BY <1>1, <1>2

\* The abstract wiring of an app, whichever state it is in.
LEMMA WiringView ==
    OneAtATime /\ Known /\ SoloInv =>
      \A a \in Apps :
        /\ (\E c \in InFlight : AppOf(c) = a) => CommittedWiring(a) = NoName
        /\ (\A c \in InFlight : AppOf(c) # a) /\ CleanApp(a) => CommittedWiring(a) = NoName
        /\ \A d \in Calls : (\A c \in InFlight : AppOf(c) # a) /\ WiredBy(a, d) =>
             CommittedWiring(a) = NameOf(d)
  <1> SUFFICES ASSUME OneAtATime, Known, SoloInv, NEW a \in Apps
               PROVE  /\ (\E c \in InFlight : AppOf(c) = a) => CommittedWiring(a) = NoName
                      /\ (\A c \in InFlight : AppOf(c) # a) /\ CleanApp(a)
                           => CommittedWiring(a) = NoName
                      /\ \A d \in Calls : (\A c \in InFlight : AppOf(c) # a) /\ WiredBy(a, d)
                           => CommittedWiring(a) = NameOf(d)
    OBVIOUS
  <1>1. \A i : WiredOnce(a, i) => routes[a] # << >>
    BY DEF WiredOnce
  <1>2. ASSUME NEW c \in InFlight, AppOf(c) = a PROVE CommittedWiring(a) = NoName
    <2>1. routes[a] = << >>
      BY <1>2 DEF SoloInv, CallFits, AppFits
    <2>2. ~\E i \in DOMAIN hooks[a] : WiredOnce(a, i)
      BY <1>1, <2>1
    <2> QED
      BY <1>2, <2>2 DEF CommittedWiring
  <1>3. ASSUME \A c \in InFlight : AppOf(c) # a, CleanApp(a) PROVE CommittedWiring(a) = NoName
    <2>1. HostIntact(a) /\ Unwound(a)
      BY <1>3, RecordersFacts DEF CleanApp, Unwound
    <2>2. ~\E i \in DOMAIN hooks[a] : WiredOnce(a, i)
      BY <1>1, <1>3 DEF CleanApp
    <2> QED
      BY <1>3, <2>1, <2>2 DEF CommittedWiring
  <1>4. ASSUME NEW d \in Calls, \A c \in InFlight : AppOf(c) # a, WiredBy(a, d)
        PROVE  CommittedWiring(a) = NameOf(d)
    <2>1. HostIntact(a) /\ \E i \in DOMAIN hooks[a] : WiredOnce(a, i)
      BY <1>4, RecordersFacts DEF WiredBy, WiredOnce
    <2>2. ~Unwound(a) /\ Head(routes[a]) = d
      BY <1>4 DEF WiredBy, Unwound
    <2> QED
      BY <1>4, <2>1, <2>2 DEF CommittedWiring
  <1> QED
    BY <1>2, <1>3, <1>4

\* The same of the next state.
LEMMA ViewsNext ==
    ASSUME OneAtATime, Known', SoloInv'
    PROVE  /\ InFlight' = {} =>
                /\ CommittedIdentity' = service'
                /\ CommittedExposed' = ServiceOf(collector)'
                /\ CommittedBuilds' = samples'
           /\ \A c \in Calls : InFlight' = {c} =>
                /\ CommittedIdentity' = KeptIdentity(c)'
                /\ CommittedExposed' = ServiceOf(KeptCollector(c))'
                /\ CommittedBuilds' = KeptSamples(c)'
           /\ \A a \in Apps :
                /\ (\E c \in InFlight' : AppOf(c)' = a) => CommittedWiring(a)' = NoName
                /\ (\A c \in InFlight' : AppOf(c)' # a) /\ CleanApp(a)'
                     => CommittedWiring(a)' = NoName
                /\ \A d \in Calls : (\A c \in InFlight' : AppOf(c)' # a) /\ WiredBy(a, d)'
                     => CommittedWiring(a)' = NameOf(d)'
  <1>1. (OneAtATime /\ Known /\ SoloInv /\ InFlight = {} =>
           /\ CommittedIdentity = service
           /\ CommittedExposed = ServiceOf(collector)
           /\ CommittedBuilds = samples)'
    BY ViewAtRest, PTL
  <1>2. (OneAtATime /\ Known /\ SoloInv =>
           \A c \in Calls : InFlight = {c} =>
             /\ CommittedIdentity = KeptIdentity(c)
             /\ CommittedExposed = ServiceOf(KeptCollector(c))
             /\ CommittedBuilds = KeptSamples(c))'
    BY ViewInFlight, PTL
  <1>3. (OneAtATime /\ Known /\ SoloInv =>
           \A a \in Apps :
             /\ (\E c \in InFlight : AppOf(c) = a) => CommittedWiring(a) = NoName
             /\ (\A c \in InFlight : AppOf(c) # a) /\ CleanApp(a) => CommittedWiring(a) = NoName
             /\ \A d \in Calls : (\A c \in InFlight : AppOf(c) # a) /\ WiredBy(a, d) =>
                  CommittedWiring(a) = NameOf(d))'
    BY WiringView, PTL
  <1> QED
    BY <1>1, <1>2, <1>3

-----------------------------------------------------------------------------
(* Every step maps to a step of InstallTxn, or to a stutter.               *)

\* Until a call ends, no step of it changes the identity that its rollback would leave,
LEMMA KeptIdentityStep ==
    ASSUME OneAtATime, Known, Known', SoloInv, NEW c \in Calls, InnerStep(c),
           pc'[c] \in Running
    PROVE  KeptIdentity(c)' = KeptIdentity(c)
  <1>0. CallFits(c) /\ RestFits
    BY DEF SoloInv, InnerStep, InFlight
  <1> USE <1>0
  <1> USE DEF CallFits, IdentityFits, KeptIdentity, procVars, buildVars, appVars, Known,
          TypeOK, Goto, Frame, Running, Trying, RollingBack, Fallible
  <1>1. CASE MarkInstalled(c)
    BY <1>1 DEF MarkInstalled
  <1>2. CASE SnapshotApp(c)
    BY <1>2 DEF SnapshotApp
  <1>3. CASE PeekService(c)
    BY <1>3 DEF PeekService
  <1>4. CASE SetService(c)
    BY <1>4 DEF SetService
  <1>5. CASE ReuseCollector(c)
    BY <1>5 DEF ReuseCollector
  <1>6. CASE ClaimCollector(c)
    BY <1>6 DEF ClaimCollector
  <1>7. CASE ClaimUnregistered(c)
    BY <1>7 DEF ClaimUnregistered
  <1>8. CASE ConstructCollector(c)
    BY <1>8 DEF ConstructCollector
  <1>9. CASE RegisterCollector(c)
    BY <1>9 DEF RegisterCollector
  <1>10. CASE StampBuildInfo(c)
    BY <1>10 DEF StampBuildInfo
  <1>11. CASE OwnBuildInfo(c)
    BY <1>11 DEF OwnBuildInfo
  <1>12. CASE SetBuildInfo(c)
    BY <1>12 DEF SetBuildInfo
  <1>13. CASE WireApp(c)
    BY <1>13 DEF WireApp
  <1>14. CASE ExposeRoute(c)
    BY <1>14 DEF ExposeRoute
  <1>15. CASE ExposeConflict(c)
    BY <1>15 DEF ExposeConflict
  <1>16. CASE RollbackApp(c)
    BY <1>16 DEF RollbackApp
  <1>17. CASE RollbackWiring(c)
    BY <1>17 DEF RollbackWiring
  <1>18. CASE KeepBuildInfo(c)
    BY <1>18 DEF KeepBuildInfo
  <1>19. CASE DisownBuildInfo(c)
    BY <1>19 DEF DisownBuildInfo
  <1>20. CASE RemoveBuildInfo(c)
    BY <1>20 DEF RemoveBuildInfo
  <1>21. CASE RestoreCollector(c)
    BY <1>21 DEF RestoreCollector
  <1>22. CASE KeepCollector(c)
    BY <1>22 DEF KeepCollector
  <1>23. CASE RestoreService(c)
    BY <1>23 DEF RestoreService
  <1>24. CASE Raise(c)
    BY <1>24, ParametersAssumption DEF Raise
  <1>25. CASE UnregisterMine(c)
    BY <1>25 DEF UnregisterMine
  <1>26. CASE ReregisterPrior(c)
    BY <1>26 DEF ReregisterPrior
  <1> QED
    BY <1>1, <1>2, <1>3, <1>4, <1>5, <1>6, <1>7, <1>8, <1>9, <1>10, <1>11, <1>12,
       <1>13, <1>14, <1>15, <1>16, <1>17, <1>18, <1>19, <1>20, <1>21, <1>22, <1>23, <1>24, <1>25,
       <1>26
    DEF InnerStep, Advance, Rollback

\* nor the collector,
LEMMA KeptCollectorStep ==
    ASSUME OneAtATime, Known, Known', SoloInv, NEW c \in Calls, InnerStep(c),
           pc'[c] \in Running
    PROVE  KeptCollector(c)' = KeptCollector(c)
  <1>0. CallFits(c) /\ RestFits
    BY DEF SoloInv, InnerStep, InFlight
  <1> USE <1>0
  <1> USE DEF CallFits, SwapFits, Installed, KeptCollector, procVars, buildVars, appVars,
          Known, TypeOK, Goto, Frame, Running, Trying, RollingBack, Fallible
  <1>1. CASE MarkInstalled(c)
    BY <1>1 DEF MarkInstalled
  <1>2. CASE SnapshotApp(c)
    BY <1>2 DEF SnapshotApp
  <1>3. CASE PeekService(c)
    BY <1>3 DEF PeekService
  <1>4. CASE SetService(c)
    BY <1>4 DEF SetService
  <1>5. CASE ReuseCollector(c)
    BY <1>5 DEF ReuseCollector
  <1>6. CASE ClaimCollector(c)
    BY <1>6 DEF ClaimCollector
  <1>7. CASE ClaimUnregistered(c)
    BY <1>7 DEF ClaimUnregistered
  <1>8. CASE ConstructCollector(c)
    BY <1>8 DEF ConstructCollector
  <1>9. CASE RegisterCollector(c)
    BY <1>9 DEF RegisterCollector
  <1>10. CASE StampBuildInfo(c)
    BY <1>10 DEF StampBuildInfo
  <1>11. CASE OwnBuildInfo(c)
    BY <1>11 DEF OwnBuildInfo
  <1>12. CASE SetBuildInfo(c)
    BY <1>12 DEF SetBuildInfo
  <1>13. CASE WireApp(c)
    BY <1>13 DEF WireApp
  <1>14. CASE ExposeRoute(c)
    BY <1>14 DEF ExposeRoute
  <1>15. CASE ExposeConflict(c)
    BY <1>15 DEF ExposeConflict
  <1>16. CASE RollbackApp(c)
    BY <1>16 DEF RollbackApp
  <1>17. CASE RollbackWiring(c)
    BY <1>17 DEF RollbackWiring
  <1>18. CASE KeepBuildInfo(c)
    BY <1>18 DEF KeepBuildInfo
  <1>19. CASE DisownBuildInfo(c)
    BY <1>19 DEF DisownBuildInfo
  <1>20. CASE RemoveBuildInfo(c)
    BY <1>20 DEF RemoveBuildInfo
  <1>21. CASE RestoreCollector(c)
    BY <1>21 DEF RestoreCollector, CollectorInv
  <1>22. CASE KeepCollector(c)
    BY <1>22 DEF KeepCollector
  <1>23. CASE RestoreService(c)
    BY <1>23 DEF RestoreService
  <1>24. CASE Raise(c)
    BY <1>24, ParametersAssumption DEF Raise, OneAtATime
  <1>25. CASE UnregisterMine(c)
    BY <1>25 DEF UnregisterMine
  <1>26. CASE ReregisterPrior(c)
    BY <1>26 DEF ReregisterPrior
  <1> QED
    BY <1>1, <1>2, <1>3, <1>4, <1>5, <1>6, <1>7, <1>8, <1>9, <1>10, <1>11, <1>12,
       <1>13, <1>14, <1>15, <1>16, <1>17, <1>18, <1>19, <1>20, <1>21, <1>22, <1>23, <1>24, <1>25,
       <1>26
    DEF InnerStep, Advance, Rollback

\* nor the samples.
LEMMA KeptSamplesStep ==
    ASSUME OneAtATime, Known, Known', SoloInv, NEW c \in Calls, InnerStep(c),
           pc'[c] \in Running
    PROVE  KeptSamples(c)' = KeptSamples(c)
  <1> USE DEF KeptSamples, OwnerInv, BeforeOwning, procVars, buildVars, appVars, Known,
          TypeOK, Goto, Frame, Running, Trying, RollingBack, Fallible
  <1>1. CASE MarkInstalled(c)
    BY <1>1 DEF MarkInstalled
  <1>2. CASE SnapshotApp(c)
    BY <1>2 DEF SnapshotApp
  <1>3. CASE PeekService(c)
    BY <1>3 DEF PeekService
  <1>4. CASE SetService(c)
    BY <1>4 DEF SetService
  <1>5. CASE ReuseCollector(c)
    BY <1>5 DEF ReuseCollector
  <1>6. CASE ClaimCollector(c)
    BY <1>6 DEF ClaimCollector
  <1>7. CASE ClaimUnregistered(c)
    BY <1>7 DEF ClaimUnregistered
  <1>8. CASE ConstructCollector(c)
    BY <1>8 DEF ConstructCollector
  <1>9. CASE RegisterCollector(c)
    BY <1>9 DEF RegisterCollector
  <1>10. CASE StampBuildInfo(c)
    BY <1>10 DEF StampBuildInfo
  <1>11. CASE OwnBuildInfo(c)
    <2>1. ~frame[c].wasNew /\ owned = samples
      BY <1>11 DEF OwnBuildInfo, Free, OwnershipInv, OwnershipMatchesSamples
    <2>2. /\ samples' = samples /\ frame'[c].key = frame[c].key
          /\ frame'[c].wasNew => frame[c].key \notin samples
      BY <1>11, <2>1 DEF OwnBuildInfo
    <2> QED
      BY <2>1, <2>2
  <1>12. CASE SetBuildInfo(c)
    <2>1. IF frame[c].wasNew THEN frame[c].key \notin samples ELSE frame[c].key \in samples
      BY <1>12 DEF SetBuildInfo
    <2>2. samples' = samples \cup {frame[c].key} /\ frame' = frame
      BY <1>12 DEF SetBuildInfo
    <2>3. \A k : /\ k \notin samples => (samples \cup {k}) \ {k} = samples \ {k}
                /\ k \in samples => samples \cup {k} = samples
      OBVIOUS
    <2> QED
      BY <2>1, <2>2, <2>3 DEF KeptSamples
  <1>13. CASE WireApp(c)
    BY <1>13 DEF WireApp
  <1>14. CASE ExposeRoute(c)
    BY <1>14 DEF ExposeRoute
  <1>15. CASE ExposeConflict(c)
    BY <1>15 DEF ExposeConflict
  <1>16. CASE RollbackApp(c)
    BY <1>16 DEF RollbackApp
  <1>17. CASE RollbackWiring(c)
    BY <1>17 DEF RollbackWiring
  <1>18. CASE KeepBuildInfo(c)
    BY <1>18 DEF KeepBuildInfo
  <1>19. CASE DisownBuildInfo(c)
    BY <1>19 DEF DisownBuildInfo
  <1>20. CASE RemoveBuildInfo(c)
    <2>1. frame[c].wasNew /\ samples' = samples \ {frame[c].key} /\ frame' = frame
      BY <1>20 DEF RemoveBuildInfo
    <2> QED
      BY <2>1
  <1>21. CASE RestoreCollector(c)
    BY <1>21 DEF RestoreCollector
  <1>22. CASE KeepCollector(c)
    BY <1>22 DEF KeepCollector
  <1>23. CASE RestoreService(c)
    BY <1>23 DEF RestoreService
  <1>24. CASE Raise(c)
    BY <1>24, ParametersAssumption DEF Raise
  <1>25. CASE UnregisterMine(c)
    BY <1>25 DEF UnregisterMine
  <1>26. CASE ReregisterPrior(c)
    BY <1>26 DEF ReregisterPrior
  <1> QED
    BY <1>1, <1>2, <1>3, <1>4, <1>5, <1>6, <1>7, <1>8, <1>9, <1>10, <1>11, <1>12,
       <1>13, <1>14, <1>15, <1>16, <1>17, <1>18, <1>19, <1>20, <1>21, <1>22, <1>23, <1>24, <1>25,
       <1>26
    DEF InnerStep, Advance, Rollback

\* The wiring of the other apps is kept.
LEMMA OthersKept ==
    ASSUME OneAtATime, Known, Known', SoloInv, SoloInv', NEW c \in Calls, InnerStep(c),
           NEW a \in Apps, a # AppOf(c)
    PROVE  CommittedWiring(a)' = CommittedWiring(a)
  <1>1. UNCHANGED <<installed[a], hooks[a], routes[a]>>
    BY OtherApps
  <1>2. InFlight = {c} /\ InFlight' \subseteq {c} /\ AppOf(c)' = AppOf(c)
    BY InnerFacts
  <1>3. /\ \A d \in InFlight : AppOf(d) # a
        /\ \A d \in InFlight' : AppOf(d)' # a
    BY <1>2
  <1>4. CASE CleanApp(a)
    <2>1. CleanApp(a)'
      BY <1>1, <1>4 DEF CleanApp
    <2> QED
      BY <1>3, <1>4, <2>1, WiringView, ViewsNext
  <1>5. ASSUME NEW d \in Calls, WiredBy(a, d) PROVE CommittedWiring(a)' = CommittedWiring(a)
    <2>1. pc'[d] # "idle" /\ NameOf(d)' = NameOf(d)
      BY <1>5, InnerFacts DEF WiredBy
    <2>2. WiredBy(a, d)'
      BY <1>1, <1>5, <2>1 DEF WiredBy
    <2>3. CommittedWiring(a) = NameOf(d)
      BY <1>3, <1>5, WiringView
    <2>4. CommittedWiring(a)' = NameOf(d)'
      BY <1>3, <2>2, ViewsNext
    <2> QED
      BY <2>1, <2>3, <2>4
  <1> QED
    BY <1>3, <1>4, <1>5 DEF SoloInv, RestFits

\* Nothing that is committed changes.
Stutters ==
    /\ CommittedIdentity' = CommittedIdentity /\ CommittedExposed' = CommittedExposed
    /\ CommittedBuilds' = CommittedBuilds
    /\ \A a \in Apps : CommittedWiring(a)' = CommittedWiring(a)

\* What a call in flight has changed so far is not committed.
LEMMA MidStutters ==
    ASSUME OneAtATime, Known, Known', SoloInv, SoloInv', NEW c \in Calls, InnerStep(c),
           pc'[c] \in Running
    PROVE  Stutters
  <1>1. InFlight = {c} /\ InFlight' = {c} /\ AppOf(c)' = AppOf(c)
    BY InnerFacts DEF InFlight
  <1>2. KeptCollector(c) \in Calls \cup {NoCall}
    BY DEF KeptCollector, Known, TypeOK, Frame
  <1>3. ServiceOf(KeptCollector(c))' = ServiceOf(KeptCollector(c))
    BY <1>2, KeptCollectorStep, InnerFacts DEF ServiceOf
  <1>4. \A a \in Apps : CommittedWiring(a)' = CommittedWiring(a)
    <2>1. AppOf(c) \in Apps
      BY DEF Known, TypeOK, Frame, AppOf
    <2>2. CommittedWiring(AppOf(c)) = NoName
      BY <1>1, <2>1, WiringView
    <2>3. \A a \in Apps : a = AppOf(c) => CommittedWiring(a)' = NoName
      BY <1>1, ViewsNext
    <2> QED
      BY <2>2, <2>3, OthersKept
  <1> QED
    BY <1>1, <1>3, <1>4, KeptIdentityStep, KeptSamplesStep, ViewInFlight, ViewsNext DEF Stutters

\* The rollback of a call ends where the call began.
LEMMA RollbackStutters ==
    ASSUME OneAtATime, Known, Known', SoloInv, SoloInv', NEW c \in Calls, InnerStep(c),
           RestoreService(c)
    PROVE  Stutters
  <1>0. CallFits(c)
    BY DEF SoloInv, InnerStep, InFlight
  <1>1. InFlight = {c} /\ AppOf(c)' = AppOf(c) /\ AppOf(c) \in Apps
    BY InnerFacts DEF Known, TypeOK, Frame, AppOf
  <1>2. pc[c] = "rb_service" /\ pc'[c] = "raised"
    BY DEF RestoreService, Goto, Known, TypeOK
  <1>3. InFlight' = {}
    BY <1>2, InnerFacts DEF InFlight, Running, Trying, RollingBack, Fallible
  <1>4. service' = KeptIdentity(c)
    BY <1>0, <1>2 DEF RestoreService, KeptIdentity, CallFits, IdentityFits, Trimmed
  <1>5. ServiceOf(collector)' = ServiceOf(KeptCollector(c))
    <2>1. collector' = KeptCollector(c) /\ collector \in Calls \cup {NoCall}
      BY <1>0, <1>2
      DEF RestoreService, KeptCollector, CallFits, SwapFits, procVars, Known, TypeOK
    <2> QED
      BY <2>1, InnerFacts DEF ServiceOf, RestoreService, procVars
  <1>6. samples' = KeptSamples(c)
    BY <1>0, <1>2 DEF RestoreService, KeptSamples, CallFits, SampleFits, buildVars
  <1>7. \A a \in Apps : CommittedWiring(a)' = CommittedWiring(a)
    <2>1. \A a \in Apps : a = AppOf(c) => CleanApp(a)'
      BY <1>0, <1>2 DEF RestoreService, CallFits, AppFits, CleanApp, RollingBack, appVars
    <2>2. \A a \in Apps : a = AppOf(c) => CommittedWiring(a)' = NoName
      BY <1>3, <2>1, ViewsNext
    <2>3. CommittedWiring(AppOf(c)) = NoName
      BY <1>1, WiringView
    <2> QED
      BY <2>2, <2>3, OthersKept
  <1> QED
    BY <1>1, <1>3, <1>4, <1>5, <1>6, <1>7, ViewInFlight, ViewsNext DEF Stutters

\* A call that returns commits what it has changed, all at once.
LEMMA ReturnCommits ==
    ASSUME OneAtATime, Known, Known', SoloInv, SoloInv', NEW c \in Calls, InnerStep(c),
           ExposeRoute(c)
    PROVE  Txn!TxnNext
  <1> DEFINE a == AppOf(c)
             n == NameOf(c)
             t == frame[c].key[2]
  <1>0. CallFits(c)
    BY DEF SoloInv, InnerStep, InFlight
  <1>1. InFlight = {c} /\ a' = a /\ a \in Apps /\ n' = n /\ n \in Names
    BY InnerFacts DEF Known, TypeOK, Frame, AppOf, NameOf
  <1>2. pc[c] = "expose" /\ pc'[c] = "done"
    BY DEF ExposeRoute, Goto, Known, TypeOK
  <1>3. InFlight' = {}
    BY <1>2, InnerFacts DEF InFlight, Running, Trying, RollingBack, Fallible
  <1>4. CommittedIdentity' = Strip[n]
    <2>1. service' = Strip[n]
      BY <1>0, <1>2 DEF ExposeRoute, CallFits, IdentityFits, Trying, Fallible
    <2> QED
      BY <1>3, <2>1, ViewsNext
  <1>5. CommittedExposed' = IF a \in Multiproc \ Flask THEN CommittedExposed ELSE n
    <2>1. collector' = collector /\ collector \in Calls \cup {NoCall}
      BY DEF ExposeRoute, procVars, Known, TypeOK
    <2>2. ServiceOf(collector)' = ServiceOf(collector)
      BY <2>1, InnerFacts DEF ServiceOf
    <2>3. CommittedExposed' = ServiceOf(collector)
      BY <1>3, <2>2, ViewsNext
    <2>4. CASE SkipsCollector(c)
      <3>1. KeptCollector(c) = collector
        BY <1>0, <1>2, <2>4 DEF CallFits, SwapFits, KeptCollector, Installed
      <3> QED
        BY <1>1, <2>3, <2>4, <3>1, ViewInFlight DEF SkipsCollector
    <2>5. CASE ~SkipsCollector(c)
      <3>1. collector # NoCall /\ NameOf(collector) = n
        BY <1>0, <1>2, <2>5, CallsAssumption
        DEF CallFits, SwapFits, Installed, Known, TypeOK, Frame, NameOf
      <3> QED
        BY <2>3, <2>5, <3>1 DEF SkipsCollector, ServiceOf
    <2> QED
      BY <2>4, <2>5
  <1>6. t \in Seconds /\ CommittedBuilds' = CommittedBuilds \cup {<<n, t>>}
    <2>1. frame[c].key \in Keys /\ frame[c].key[1] = n /\ frame[c].key \in samples
      BY <1>0, <1>2 DEF CallFits, SampleFits, Known, TypeOK, Frame
    <2>2. frame[c].key = <<n, t>> /\ t \in Seconds
      BY <2>1 DEF Keys
    <2>3. samples' = KeptSamples(c) \cup {frame[c].key}
      BY <2>1 DEF ExposeRoute, KeptSamples, buildVars
    <2> QED
      BY <1>1, <1>3, <2>2, <2>3, ViewInFlight, ViewsNext
  <1>7. CommittedWiring(a) = NoName
    BY <1>1, WiringView
  <1>8. \A b \in Apps : CommittedWiring(b)' = IF b = a THEN n ELSE CommittedWiring(b)
    <2>1. ASSUME NEW b \in Apps, b = a PROVE CommittedWiring(b)' = n
      <3>1. WiredBy(a, c)'
        <4>1. CleanApp(AppOf(c))' \/ WiredBy(AppOf(c), c)'
          BY <1>2, AppLeft DEF Running, Trying, RollingBack, Fallible
        <4>2. installed'[a] /\ a' = a
          BY <1>0, <1>1, <1>2 DEF ExposeRoute, CallFits, AppFits, RollingBack
        <4> QED
          BY <4>1, <4>2 DEF CleanApp
      <3>2. WiredBy(b, c)'
        BY <1>1, <2>1, <3>1 DEF WiredBy
      <3> QED
        BY <1>1, <1>3, <3>2, ViewsNext
    <2> QED
      BY <2>1, OthersKept
  <1> HIDE DEF a, n, t
  <1>9. Txn!Commit(a, n, t)
    BY <1>1, <1>4, <1>5, <1>6, <1>7, <1>8 DEF Txn!Commit
  <1> QED
    BY <1>1, <1>6, <1>9 DEF Txn!TxnNext

\* A call that begins, or finds the app installed, commits nothing.
LEMMA CalledStutters ==
    ASSUME OneAtATime, Known, Known', SoloInv, SoloInv', NEW c \in Calls, NEW a \in Apps,
           NEW n \in Names, AlreadyInstalled(c, a, n) \/ Begin(c, a, n)
    PROVE  Stutters
  <1>1. /\ InFlight = {} /\ InFlight' \subseteq {c}
        /\ pc[c] = "idle" /\ pc'[c] \in {"noop", "mark"}
        /\ pc'[c] = "mark" => ~installed[a]
        /\ \A d \in Calls : pc[d] # "idle" => d # c /\ pc'[d] = pc[d] /\ frame'[d] = frame[d]
        /\ frame'[c].app = a /\ frame'[c].proc = frame[c].proc
        /\ UNCHANGED <<service, collector, samples, installed, hooks, routes>>
    BY CalledFacts DEF procVars, buildVars, appVars
  <1>2. ServiceOf(collector)' = ServiceOf(collector)
    <2>1. collector # NoCall => collector \in Calls /\ pc[collector] # "idle"
      BY DEF SoloInv, RestFits, Known, TypeOK
    <2> QED
      BY <1>1, <2>1 DEF ServiceOf, NameOf
  <1>3. ASSUME InFlight' = {c}
        PROVE  /\ KeptIdentity(c)' = service /\ KeptCollector(c)' = collector'
               /\ KeptSamples(c)' = samples
    <2>1. pc'[c] = "mark"
      BY <1>1, <1>3 DEF InFlight, Running, Trying, RollingBack, Fallible
    <2>2. frame'[c].proc = "none" /\ ~frame'[c].wasNew
      BY <1>1, <2>1 DEF SoloInv, RestFits, InFlight, Known, OwnerInv, BeforeOwning
    <2> QED
      BY <1>1, <2>1, <2>2 DEF KeptIdentity, KeptCollector, KeptSamples, Installed
  <1>4. /\ CommittedIdentity' = service /\ CommittedExposed' = ServiceOf(collector)
        /\ CommittedBuilds' = samples
    <2>1. CASE InFlight' = {}
      BY <1>1, <1>2, <2>1, ViewsNext
    <2>2. CASE InFlight' = {c}
      <3>1. ServiceOf(KeptCollector(c))' = ServiceOf(collector)'
        BY <1>3, <2>2 DEF ServiceOf
      <3> QED
        BY <1>2, <1>3, <2>2, <3>1, ViewsNext
    <2> QED
      BY <1>1, <2>1, <2>2
  <1>5. ASSUME NEW b \in Apps PROVE CommittedWiring(b)' = CommittedWiring(b)
    <2>1. CASE CleanApp(b)
      <3>1. CleanApp(b)'
        BY <1>1, <2>1 DEF CleanApp
      <3>2. CommittedWiring(b) = NoName
        BY <1>1, <2>1, WiringView
      <3>3. CommittedWiring(b)' = NoName
        BY <3>1, ViewsNext
      <3> QED
        BY <3>2, <3>3
    <2>2. ASSUME NEW d \in Calls, WiredBy(b, d) PROVE CommittedWiring(b)' = CommittedWiring(b)
      <3>1. pc'[d] = pc[d] /\ frame'[d] = frame[d]
        BY <1>1, <2>2 DEF WiredBy
      <3>2. WiredBy(b, d)' /\ NameOf(d)' = NameOf(d)
        BY <1>1, <2>2, <3>1 DEF WiredBy, NameOf
      <3>3. \A e \in InFlight' : AppOf(e)' # b
        <4> SUFFICES ASSUME NEW e \in InFlight', AppOf(e)' = b PROVE FALSE
          OBVIOUS
        <4>1. e = c /\ b = a /\ installed[b]
          BY <1>1, <2>2 DEF AppOf, WiredBy
        <4> QED
          BY <1>1, <4>1 DEF InFlight, Running, Trying, RollingBack, Fallible
      <3>4. CommittedWiring(b) = NameOf(d)
        BY <1>1, <2>2, WiringView
      <3>5. CommittedWiring(b)' = NameOf(d)'
        BY <3>2, <3>3, ViewsNext
      <3> QED
        BY <3>2, <3>4, <3>5
    <2> QED
      BY <1>1, <2>1, <2>2 DEF SoloInv, RestFits
  <1> QED
    BY <1>1, <1>4, <1>5, ViewAtRest DEF Stutters

\* The clock, and a process that serves, commit nothing.
LEMMA CalmStutters ==
    ASSUME UNCHANGED <<service, collector, exposed, buildVars, appVars, pc, frame>>
    PROVE  Stutters
  BY DEF Stutters, CommittedIdentity, CommittedExposed, CommittedBuilds, CommittedWiring,
         Current, Installed, InFlight, NameOf, AppOf, HostIntact, Unwound, WiredOnce, Recorders,
         buildVars, appVars

\* Every step of install() commits, or stutters.
LEMMA TxnStep ==
    ASSUME OneAtATime, Known, Known', SoloInv, SoloInv', [Next]_vars
    PROVE  [Txn!TxnNext]_(Txn!txnVars)
  <1>1. Stutters => UNCHANGED Txn!txnVars
    BY DEF Stutters, Txn!txnVars
  <1>2. ASSUME NEW c \in Calls, InnerStep(c) PROVE Stutters \/ Txn!TxnNext
    <2>1. CASE pc'[c] \in Running
      BY <1>2, <2>1, MidStutters
    <2>2. CASE pc'[c] \notin Running
      BY <1>2, <2>2, EndsBy, ReturnCommits, RollbackStutters
    <2> QED
      BY <2>1, <2>2
  <1> QED
    BY <1>1, <1>2, StepCases, CalledStutters, CalmStutters

\* Nothing is committed at first.
LEMMA TxnFirst ==
    ASSUME OneAtATime, Init, Known
    PROVE  Txn!TxnInit
  <1>1. SoloInv /\ InFlight = {}
    BY SoloInit DEF Init, InFlight, Running, Trying, RollingBack, Fallible
  <1>2. \A a \in Apps : CleanApp(a)
    BY DEF Init, CleanApp, HostList
  <1>3. \A a \in Apps : CommittedWiring(a) = NoName
    BY <1>1, <1>2, WiringView
  <1> QED
    BY <1>1, <1>3, ViewAtRest DEF Txn!TxnInit, Init, ServiceOf

\* install() of the Python lane is all or nothing when calls do not overlap: whichever
\* statement raises, but for the two in the middle of the collector's swap, a call
\* changes the identity, the process metrics, the build_info samples and the app
\* together or not at all (fastapi.py:118-127), if no FastAPI app has a middleware of
\* its own and no sentinel is dropped.
THEOREM PyImplementsTxn ==
    ASSUME OneAtATime
    PROVE  Spec => AllOrNothing
  <1>1. Init /\ Known => Txn!TxnInit
    BY TxnFirst
  <1>2. Known /\ Known' /\ SoloInv /\ SoloInv' /\ [Next]_vars => [Txn!TxnNext]_(Txn!txnVars)
    BY TxnStep
  <1> QED
    BY <1>1, <1>2, SoloInvariant, PTL DEF Spec, AllOrNothing, Txn!TxnSpec

Promise == INSTANCE InstallTxnProofs WITH
    identity <- CommittedIdentity,
    exposed <- CommittedExposed,
    builds <- CommittedBuilds,
    wired <- [a \in Apps |-> CommittedWiring(a)],
    NoMetrics <- Multiproc \ Flask,
    Rearmable <- {}

\* So the series of a Python process can be joined: whichever calls have failed, every
\* app that records has a build_info sample of its service, and with process metrics on
\* every app they carry the identity.
THEOREM PyCoherent ==
    ASSUME OneAtATime
    PROVE  Spec => []Txn!Coherent
  <1>1. Promise!TxnSpec => []Promise!Coherent
    BY Promise!TxnCoherent, NamesAssumption
  <1>2. Promise!TxnSpec <=> Txn!TxnSpec
    BY DEF Promise!TxnSpec, Txn!TxnSpec, Promise!TxnInit, Txn!TxnInit, Promise!TxnNext,
       Txn!TxnNext, Promise!Commit, Txn!Commit, Promise!txnVars, Txn!txnVars
  <1>3. Promise!Coherent <=> Txn!Coherent
    BY DEF Promise!Coherent, Txn!Coherent, Promise!WiredHasBuildInfo, Txn!WiredHasBuildInfo,
       Promise!MetricsCarryIdentity, Txn!MetricsCarryIdentity
  <1> QED
    BY <1>1, <1>2, <1>3, PyImplementsTxn, PTL DEF AllOrNothing
=============================================================================
