--------------------------- MODULE TaskReloadHeap ---------------------------
(***************************************************************************)
(* What is allocated and what is open in every phase of a reload of        *)
(* TaskReload: the invariant behind the validity of pointers, the          *)
(* commitment of a configuration, and the order in which tasks stop and    *)
(* start.                                                                  *)
(***************************************************************************)
EXTENDS TaskReloadProofs

(* The configuration that task_mgr holds, by the cycle that read it, and   *)
(* the objects of a configuration.                                         *)
Base == mgr.config[2]

Full(c) == <<"full", c>>

Survivors(c) == <<"survivors", c>>

Objects(c) == {Full(c), <<"errors", c>>, <<"config", c>>}

(* The configuration being loaded, which the reload thread frees when it   *)
(* exits.                                                                  *)
LoadedConfig == IF rlPc = "exited" THEN {} ELSE {<<"config", cycle>>}

(* A set of tasks is sound for configuration n: it is the configured tasks *)
(* but the failed ones, each once, and of two of them the configuration    *)
(* that opened the younger one has the older one.                          *)
Sound(tasks, n, failed) ==
    /\ {t.fp : t \in tasks} = readAt[n].tasks \ failed
    /\ \A t \in tasks : t.cycle <= n
    /\ \A t, u \in tasks :
          /\ t.fp = u.fp => t = u
          /\ u.cycle > t.cycle => t.fp \in readAt[u.cycle].tasks

ListOk(c) == readAt[c] \in Configs /\ Sound(listOf[Full(c)], c, failedOf[c])

(* The tasks of list o that configuration n keeps, and the full list of n  *)
(* built from it.                                                          *)
Kept(o, n) == FindTasks(readAt[n].tasks, Full(o))

BuiltFrom(o, n, failed) ==
    Kept(o, n) \cup [cycle : {n}, fp : readAt[n].tasks \ (failed \cup Fingerprints(Full(o)))]

Succeeds(o, n) ==
    /\ o < n
    /\ NoFp \notin readAt[n].tasks
    /\ failedOf[n] \subseteq readAt[n].tasks \ Fingerprints(Full(o))
    /\ listOf[Full(n)] = BuiltFrom(o, n, failedOf[n])
-----------------------------------------------------------------------------
(* The stages of a reload. *)
Quiet ==
    \/ phase = "idle"
    \/ phase = "survivors" /\ (ReloadTurn \/ reloadTx.type = "ERROR")
    \/ phase = "reclaim" /\ MainTurn

Planned == phase = "survivors" /\ MainTurn /\ reloadTx.type = "SURVIVORS"
Building == phase = "newTasks" /\ ReloadTurn
BuildFailed == phase = "newTasks" /\ MainTurn /\ reloadTx.type = "ERROR"
Built == phase = "newTasks" /\ MainTurn /\ reloadTx.type = "NEW_TASKS"
Reclaiming == phase = "reclaim" /\ ReloadTurn

(* Nothing but the committed configuration. *)
QuietInv ==
    Quiet =>
        /\ mgr.tasks = Full(Base)
        /\ heap = Objects(Base)
        /\ live = listOf[Full(Base)]
        /\ ctx = NoCtx
        /\ phase = "survivors" => Base < cycle
        /\ MainTurn => Held(reloadTx) = {NULL}
        /\ ReloadTurn => mainTx = Msg("PLAN", Full(Base), NULL, NULL)

(* The configuration and the surviving subset were read: the subset is     *)
(* polled once main has it.                                                *)
LoadingInv ==
    Planned \/ Building =>
        /\ Base < cycle
        /\ mgr.tasks = IF Planned THEN Full(Base) ELSE Survivors(cycle)
        /\ heap = Objects(Base) \cup {Survivors(cycle)} \cup LoadedConfig
        /\ live = listOf[Full(Base)]
        /\ listOf[Survivors(cycle)] = Kept(Base, cycle)
        /\ readAt[cycle] \in Configs /\ NoFp \notin readAt[cycle].tasks
        /\ ctx = [current |-> Full(Base), old |-> NULL, config |-> <<"config", cycle>>]
        /\ Planned => reloadTx = Msg("SURVIVORS", Survivors(cycle), NULL, NULL)
        /\ Building => mainTx = Msg("BUILD", Full(Base), NULL, NULL)

(* The build failed: the old list is on its way back to main.              *)
BuildFailedInv ==
    BuildFailed =>
        /\ Base < cycle
        /\ mgr.tasks = Survivors(cycle)
        /\ heap = Objects(Base) \cup {Survivors(cycle)}
        /\ live = listOf[Full(Base)]
        /\ listOf[Survivors(cycle)] \subseteq listOf[Full(Base)]
        /\ ctx = NoCtx
        /\ reloadTx = Msg("ERROR", Full(Base), NULL, NULL)

(* The new set was built: old and new tasks are open. *)
BuiltInv ==
    Built =>
        /\ mgr.tasks = Survivors(cycle)
        /\ heap = Objects(Base) \cup {Survivors(cycle)} \cup Objects(cycle)
        /\ live = listOf[Full(Base)] \cup listOf[Full(cycle)]
        /\ listOf[Survivors(cycle)] = Kept(Base, cycle)
        /\ ListOk(cycle) /\ Succeeds(Base, cycle)
        /\ ctx = [current |-> Full(Base), old |-> Full(Base), config |-> NULL]
        /\ reloadTx = Msg("NEW_TASKS", Full(cycle), <<"errors", cycle>>, <<"config", cycle>>)

(* The new set is committed, the old one is about to be reclaimed. *)
ReclaimingInv ==
    LET o == mainTx.config[2] IN
    Reclaiming =>
        /\ Base = cycle
        /\ mgr.tasks = Full(cycle)
        /\ o \in Cycles
        /\ heap = Objects(o) \cup Objects(cycle)
        /\ live = listOf[Full(o)] \cup listOf[Full(cycle)]
        /\ ListOk(o) /\ Succeeds(o, cycle)
        /\ ctx = [current |-> Full(o), old |-> Full(o), config |-> NULL]
        /\ mainTx = Msg("RECLAIM", Full(cycle), <<"errors", o>>, <<"config", o>>)

CommittedInv ==
    /\ Base \in 0 .. cycle
    /\ mgr.errors = <<"errors", Base>> /\ mgr.config = <<"config", Base>>
    /\ ListOk(Base)
    /\ Pipeline /\ readAt[Base].buffer > 0 => allocCap = readAt[Base].buffer

StageInv ==
    CommittedInv /\ QuietInv /\ LoadingInv /\ BuildFailedInv /\ BuiltInv /\ ReclaimingInv

(* After task_manager_destroy nothing moves. *)
ExitInv == OldStopsFirst /\ (phase = "idle" => live = {} /\ heap = {})

HInv == IF mainPc = "exited" THEN ExitInv ELSE StageInv
-----------------------------------------------------------------------------
(* Which stage it is; no two are at once. *)
LEMMA Stages ==
    ASSUME IInv
    PROVE  /\ phase \in {"idle", "survivors", "newTasks", "reclaim"}
           /\ Quiet => ~Planned /\ ~Building /\ ~BuildFailed /\ ~Built /\ ~Reclaiming
           /\ Planned => ~Building /\ ~BuildFailed /\ ~Built /\ ~Reclaiming
           /\ Building => ~BuildFailed /\ ~Built /\ ~Reclaiming
           /\ BuildFailed => ~Built /\ ~Reclaiming
           /\ Built => ~Reclaiming
BY Zenon DEF IInv, TypeOK, MainTypeOK, ProtocolInv, TurnInv, Quiet, Planned, Building, BuildFailed,
       Built, Reclaiming, ReloadTurn, MainTurn

(* The tasks of a list are no younger than the list. *)
LEMMA ListAges ==
    ASSUME HeapTypeOK, NEW c \in Cycles, ListOk(c)
    PROVE  c \in Nat /\ \A t \in listOf[Full(c)] : t.cycle \in 0 .. c
<1>1. listOf[Full(c)] \subseteq Task
    BY Zenon DEF HeapTypeOK, Full, ListPtr
<1> QED BY <1>1, ReloadAssumption DEF ListOk, Sound, Task, Cycles

(* A step that moves none of the objects and keeps the stage preserves the *)
(* invariant.                                                              *)
LEMMA HeapFrame ==
    ASSUME IInv, HInv,
           UNCHANGED <<live, heap, listOf, failedOf, readAt, phase, cycle, mgr, allocCap, ctx,
                       mainTx, reloadTx>>,
           ReloadTurn' <=> ReloadTurn, MainTurn' <=> MainTurn,
           mainPc' = "exited" <=> mainPc = "exited",
           rlPc' = "exited" <=> rlPc = "exited"
    PROVE  HInv'
<1>1. CASE mainPc = "exited"
    BY <1>1, Zenon DEF HInv, ExitInv, OldStopsFirst, Polled
<1>2. CASE mainPc # "exited"
  <2>1. StageInv /\ mainPc' # "exited"
      BY <1>2, Zenon DEF HInv
  <2>2. /\ Quiet' <=> Quiet
        /\ Planned' <=> Planned
        /\ Building' <=> Building
        /\ BuildFailed' <=> BuildFailed
        /\ Built' <=> Built
        /\ Reclaiming' <=> Reclaiming
      BY Zenon DEF Quiet, Planned, Building, BuildFailed, Built, Reclaiming
  <2>3. \A c : ListOk(c)' <=> ListOk(c)
      BY Zenon DEF ListOk, Sound
  <2>4. \A o, n : (Succeeds(o, n)' <=> Succeeds(o, n)) /\ Kept(o, n)' = Kept(o, n)
      BY DEF Succeeds, BuiltFrom, Kept, FindTasks, Fingerprints
  <2>5. Base' = Base /\ LoadedConfig' = LoadedConfig
      BY Zenon DEF Base, LoadedConfig
  <2>6. CommittedInv' /\ QuietInv'
      BY <2>1, <2>2, <2>3, <2>5, Zenon DEF StageInv, CommittedInv, QuietInv, Held
  <2>7. LoadingInv' /\ BuildFailedInv'
      BY <2>1, <2>2, <2>4, <2>5, Zenon DEF StageInv, LoadingInv, BuildFailedInv
  <2>8. BuiltInv' /\ ReclaimingInv'
      BY <2>1, <2>2, <2>3, <2>4, <2>5, Zenon DEF StageInv, BuiltInv, ReclaimingInv
  <2> QED BY <2>1, <2>6, <2>7, <2>8, Zenon DEF HInv, StageInv
<1> QED BY <1>1, <1>2, Zenon

(* Once task_manager_destroy ran, no thread moves. *)
LEMMA ExitedStill ==
    ASSUME IInv, HInv, [Next]_vars, mainPc = "exited"
    PROVE  HInv'
<1>1. rlPc = "exited" /\ outPc = "exited" /\ outMsg = NULL /\ ring = <<>>
    BY Zenon DEF IInv, ThreadInv, MessageInv, OutputInv
<1> USE DEF notOutput, notReload, notMain, envVars, heapVars, mainVars, boxVars,
            reloadVars, outVars
<1>2. UNCHANGED <<live, heap, listOf, readAt, mgr, phase, mainPc>>
  <2>1. CASE (\E c \in Configs \cup {Bad} : WriteConfig(c)) \/ SignalReload \/ Quit
      BY <2>1, Zenon DEF WriteConfig, SignalReload, Quit
  <2>2. CASE (\E t \in Task : Capture(t)) \/ MainCycle \/ MainStep
      BY <2>2, Zenon DEF Capture, MainCycle, MainStep, AllocMsg, PushMsg, HandleSurvivors,
                  HandleNewTasks, HandleReclaimed, StopReload, JoinReload, Destroy
  <2>3. CASE ReloadStep
      BY <1>1, <2>3, Zenon
         DEF ReloadStep, ReloadExit, ReloadRecv, Plan, PlanFails, Build, BuildFails, ReclaimStart,
             WaitRunning, WaitUnanswered, WaitAnswered, WaitStopped, Reclaim
  <2>4. CASE OutputStep
      BY <2>4, Zenon DEF OutputStep, OutLoop, OutRequest, OutPop, OutSend, OutEmpty, OutDrained,
                  OutRespond, OutExit
  <2>5. CASE Terminated \/ UNCHANGED vars
      BY <2>5, Zenon DEF Terminated, vars
  <2> QED BY <2>1, <2>2, <2>3, <2>4, <2>5, Zenon DEF Next
<1> QED BY <1>2, Zenon DEF HInv, ExitInv, OldStopsFirst, Polled

(* The steps that allocate nothing, free nothing and take no turn.         *)
LEMMA QuietSteps ==
    ASSUME IInv, HInv, mainPc # "exited",
           \/ \E c \in Configs \cup {Bad} : WriteConfig(c)
           \/ SignalReload \/ Quit
           \/ \E t \in Task : Capture(t)
           \/ AllocMsg \/ PushMsg \/ StopReload \/ JoinReload
           \/ ReloadRecv \/ ReclaimStart \/ WaitRunning \/ WaitUnanswered
           \/ WaitAnswered \/ WaitStopped
           \/ OutputStep
           \/ UNCHANGED vars
    PROVE  HInv'
<1> DEFINE Still == UNCHANGED <<live, heap, listOf, failedOf, readAt, phase, cycle, mgr, allocCap, ctx,
                                mainTx, reloadTx>>
           MainStays == mainBox' = mainBox /\ mainPc # "handle" /\ mainPc' \notin {"handle", "exited"}
           ReloadStays == UNCHANGED <<reloadBox, rlPc>>
<1>1. CASE Still /\ (UNCHANGED <<mainBox, mainPc>> \/ MainStays) /\ ReloadStays
  <2>1. (ReloadTurn' <=> ReloadTurn) /\ (MainTurn' <=> MainTurn)
      BY <1>1 DEF ReloadTurn, MainTurn
  <2>2. mainPc' # "exited"
      BY <1>1, Zenon
  <2> HIDE DEF MainStays, ReloadStays
  <2> QED BY <1>1, <2>1, <2>2, HeapFrame, Zenon DEF ReloadStays
<1>2. CASE /\ Still /\ UNCHANGED <<mainBox, mainPc>>
           /\ ReloadTurn /\ ReloadTurn' /\ rlPc # "exited" /\ rlPc' # "exited"
  <2>1. MainTurn' <=> MainTurn
      BY <1>2, Zenon DEF MainTurn
  <2> QED BY <1>2, <2>1, HeapFrame, Zenon
<1> HIDE DEF Still, MainStays, ReloadStays
<1> USE DEF notOutput, notReload, notMain, envVars, heapVars, mainVars, boxVars,
            reloadVars, outVars
<1>3. CASE \/ \E c \in Configs \cup {Bad} : WriteConfig(c)
           \/ SignalReload \/ Quit
    BY <1>1, <1>3, Zenon DEF WriteConfig, SignalReload, Quit, Still, ReloadStays
<1>4. CASE \/ \E t \in Task : Capture(t)
           \/ AllocMsg \/ PushMsg \/ StopReload \/ JoinReload
  <2>1. Still /\ MainStays /\ ReloadStays
      BY <1>4, Zenon DEF Capture, AllocMsg, PushMsg, StopReload, JoinReload, Still, MainStays, ReloadStays
  <2> QED BY <1>1, <2>1, Zenon
<1>5. CASE ReloadRecv
  <2>1. mainTx.type \in {"PLAN", "BUILD", "RECLAIM"}
      BY <1>5, Stages, Zenon DEF ReloadRecv, IInv, ProtocolInv, TurnInv, ReloadTurn
  <2>2. rlPc' \in {"plan", "build", "reclaim"} /\ rlPc = "recv"
      BY <1>5, <2>1, Zenon DEF ReloadRecv
  <2> QED BY <1>2, <1>5, <2>2, Zenon DEF ReloadRecv, Still, ReloadTurn
<1>6. CASE \/ ReclaimStart \/ WaitRunning \/ WaitUnanswered \/ WaitAnswered \/ WaitStopped
  <2>1. Still /\ UNCHANGED <<mainBox, mainPc>>
      BY <1>6, Zenon DEF ReclaimStart, WaitRunning, WaitUnanswered, WaitAnswered, WaitStopped, Still
  <2>2. rlPc \notin {"recv", "exited"} /\ rlPc' \notin {"recv", "exited"}
      BY <1>6, Zenon DEF ReclaimStart, WaitRunning, WaitUnanswered, WaitAnswered, WaitStopped
  <2> QED BY <1>2, <2>1, <2>2, Zenon DEF ReloadTurn
<1>7. CASE OutputStep
  <2>1. Still /\ UNCHANGED <<mainBox, mainPc>> /\ ReloadStays
      BY <1>7, Zenon DEF OutputStep, OutLoop, OutRequest, OutPop, OutSend, OutEmpty, OutDrained, OutRespond,
                  OutExit, Still, ReloadStays
  <2> QED BY <1>1, <2>1, Zenon
<1>8. CASE UNCHANGED vars
    BY <1>1, <1>8, Zenon DEF vars, Still, ReloadStays
<1> QED BY <1>3, <1>4, <1>5, <1>6, <1>7, <1>8, Zenon

(* Main is done with a message, or had none, and only the committed        *)
(* configuration is left: it starts the next reload or is idle.            *)
LEMMA StartsQuiet ==
    ASSUME IInv, IInv', CommittedInv, TryStartReload(Full(Base)),
           mainPc' = "loop", mainBox' = FALSE, rlPc' = rlPc,
           ~reloadBox, rlPc \in {"recv", "exited"},
           mgr' = [mgr EXCEPT !.tasks = Full(Base)],
           heap' = Objects(Base), live' = listOf[Full(Base)], ctx' = NoCtx,
           UNCHANGED <<listOf, failedOf, readAt, allocCap>>
    PROVE  HInv'
<1>1. /\ phase' \in {"idle", "survivors"}
      /\ cycle' \in {cycle, cycle + 1}
      /\ phase' = "survivors" => /\ reloadBox' = TRUE /\ cycle' = cycle + 1
                                 /\ mainTx' = Msg("PLAN", Full(Base), NULL, NULL)
      /\ phase' = "idle" => reloadBox' = FALSE
    BY Zenon DEF TryStartReload, RequestTo, IInv, TypeOK, BoxTypeOK
<1>2. Base' = Base /\ mgr'.errors = mgr.errors /\ mgr'.config = mgr.config /\ mgr'.tasks = Full(Base)
    BY Zenon DEF Base, IInv, TypeOK, MainTypeOK
<1>3. /\ ~MainTurn' /\ (ReloadTurn' <=> phase' = "survivors") /\ Quiet'
    BY <1>1, Zenon DEF MainTurn, ReloadTurn, Quiet
<1>4. cycle \in Nat /\ Base \in Cycles
    BY ReloadAssumption DEF IInv, TypeOK, EnvTypeOK, Cycles, CommittedInv
<1>5. ListOk(Base)'
  <2>1. ListOk(Base)
      BY Zenon DEF CommittedInv
  <2> QED BY <1>2, <2>1 DEF ListOk, Sound
<1>6. CommittedInv'
    BY <1>1, <1>2, <1>4, <1>5 DEF CommittedInv
<1>7. QuietInv'
    BY <1>1, <1>2, <1>3, <1>4 DEF QuietInv, CommittedInv, Objects, Full
<1>8. ~Planned' /\ ~Building' /\ ~BuildFailed' /\ ~Built' /\ ~Reclaiming'
    BY <1>1, <1>3, Zenon DEF Planned, Building, BuildFailed, Built, Reclaiming
<1> QED BY <1>6, <1>7, <1>8, Zenon
        DEF HInv, StageInv, LoadingInv, BuildFailedInv, BuiltInv, ReclaimingInv

(* main_mbox_recv, or try_start_reload between reloads. *)
LEMMA MainCycleHeap ==
    ASSUME IInv, IInv', HInv, MainCycle
    PROVE  HInv'
<1> USE DEF notMain, envVars, heapVars, reloadVars, outVars
<1>1. /\ StageInv /\ mainPc' # "exited"
      /\ UNCHANGED <<live, listOf, failedOf, readAt, heap, mgr, allocCap, ctx, reloadTx, rlPc>>
    BY Zenon DEF MainCycle, HInv
<1>2. CASE mainBox \/ phase # "idle"
  <2>1. UNCHANGED <<phase, cycle, mainTx, reloadBox>> /\ (MainTurn' <=> MainTurn)
      BY <1>2, Zenon DEF MainCycle, MainTurn
  <2>2. ReloadTurn' <=> ReloadTurn
      BY <1>1, <2>1, Zenon DEF ReloadTurn
  <2>3. mainPc # "exited"
      BY Zenon DEF MainCycle
  <2> QED BY <1>1, <2>1, <2>2, <2>3, HeapFrame, Zenon
<1>3. CASE ~mainBox /\ phase = "idle"
  <2>1. TryStartReload(mgr.tasks) /\ mainPc' = "loop" /\ mainBox' = FALSE
      BY <1>3 DEF MainCycle
  <2>2. ~reloadBox /\ rlPc \in {"recv", "exited"}
      BY <1>3, Zenon DEF IInv, ProtocolInv, TurnInv, ReloadTurn
  <2>3. CommittedInv /\ QuietInv /\ Quiet
      BY <1>1, <1>3, Zenon DEF StageInv, Quiet
  <2>4. mgr.tasks = Full(Base) /\ heap = Objects(Base) /\ live = listOf[Full(Base)] /\ ctx = NoCtx
      BY <2>3, Zenon DEF QuietInv
  <2>5. mgr' = [mgr EXCEPT !.tasks = Full(Base)]
      BY <1>1, <2>4, Zenon DEF IInv, TypeOK, MainTypeOK
  <2> QED BY <1>1, <2>1, <2>2, <2>3, <2>4, <2>5, StartsQuiet, Zenon
<1> QED BY <1>2, <1>3, Zenon

(* Main polls the surviving subset, or gives the reload up. *)
LEMMA HandleSurvivorsHeap ==
    ASSUME IInv, IInv', HInv, HandleSurvivors
    PROVE  HInv'
<1> USE DEF notMain, envVars, heapVars, reloadVars, outVars
<1>1. /\ StageInv /\ mainPc = "handle" /\ mainPc' = "loop" /\ phase = "survivors"
      /\ UNCHANGED <<live, listOf, failedOf, readAt, heap, allocCap, ctx, reloadTx, rlPc, mainBox>>
    BY Zenon DEF HandleSurvivors, HInv
<1>2. MainTurn /\ ~mainBox /\ ~ReloadTurn
    BY <1>1, Zenon DEF MainTurn, IInv, ProtocolInv, TurnInv
<1>3. mainBox \in BOOLEAN
    BY Zenon DEF IInv, TypeOK, BoxTypeOK
<1>4. CASE reloadTx.type = "SURVIVORS"
  <2>1. Planned
      BY <1>1, <1>2, <1>4, Zenon DEF Planned
  <2>2. LoadingInv /\ CommittedInv
      BY <1>1, Zenon DEF StageInv
  <2>3. /\ mgr' = [mgr EXCEPT !.tasks = reloadTx.tasks]
        /\ mainTx' = Msg("BUILD", mgr.tasks, NULL, NULL) /\ reloadBox' = TRUE
        /\ phase' = "newTasks" /\ cycle' = cycle
      BY <1>4, Zenon DEF HandleSurvivors, RequestTo
  <2>4. Building' /\ ~MainTurn'
      BY <1>1, <1>2, <2>3, Zenon DEF Building, ReloadTurn, MainTurn
  <2>5. ~Quiet' /\ ~Planned' /\ ~BuildFailed' /\ ~Built' /\ ~Reclaiming'
      BY <2>3, <2>4, Zenon DEF Quiet, Planned, BuildFailed, Built, Reclaiming
  <2>6. /\ Base' = Base /\ mgr'.errors = mgr.errors /\ mgr'.config = mgr.config
        /\ mgr'.tasks = reloadTx.tasks
      BY <2>3, Zenon DEF Base, IInv, TypeOK, MainTypeOK
  <2>7. ListOk(Base)'
    <3>1. ListOk(Base)
        BY <2>2, Zenon DEF CommittedInv
    <3> QED BY <1>1, <2>6, <3>1 DEF ListOk, Sound
  <2>8. CommittedInv'
      BY <1>1, <2>2, <2>3, <2>6, <2>7, Zenon DEF CommittedInv
  <2>9. LoadedConfig' = LoadedConfig
      BY <1>1, <2>3, Zenon DEF LoadedConfig
  <2>10. Kept(Base, cycle)' = Kept(Base, cycle)
      BY <1>1, <2>3, <2>6, Zenon DEF Kept, FindTasks
  <2>11. reloadTx.tasks = Survivors(cycle)
      BY <2>1, <2>2 DEF LoadingInv, Msg
  <2>12. LoadingInv'
      BY <1>1, <2>1, <2>2, <2>3, <2>4, <2>5, <2>6, <2>9, <2>10, <2>11, Zenon DEF LoadingInv
  <2> QED BY <1>1, <2>5, <2>4, <2>8, <2>12, Zenon
          DEF HInv, StageInv, QuietInv, BuildFailedInv, BuiltInv, ReclaimingInv
<1>5. CASE reloadTx.type # "SURVIVORS"
  <2>1. reloadTx.type = "ERROR"
      BY <1>1, <1>2, <1>5, Zenon DEF IInv, ProtocolInv, TurnInv
  <2>2. TryStartReload(mgr.tasks) /\ mgr' = mgr
      BY <1>5, Zenon DEF HandleSurvivors
  <2>3. CommittedInv /\ QuietInv /\ Quiet
      BY <1>1, <2>1, Zenon DEF StageInv, Quiet
  <2>4. mgr.tasks = Full(Base) /\ heap = Objects(Base) /\ live = listOf[Full(Base)] /\ ctx = NoCtx
      BY <2>3 DEF QuietInv
  <2>5. mgr' = [mgr EXCEPT !.tasks = Full(Base)]
      BY <2>2, <2>4, Zenon DEF IInv, TypeOK, MainTypeOK
  <2>6. ~reloadBox /\ rlPc \in {"recv", "exited"} /\ mainBox' = FALSE
      BY <1>1, <1>2, <1>3, Zenon DEF ReloadTurn
  <2> QED BY <1>1, <2>2, <2>3, <2>4, <2>5, <2>6, StartsQuiet, Zenon
<1> QED BY <1>4, <1>5, Zenon

(* The reload is over. *)
LEMMA HandleReclaimedHeap ==
    ASSUME IInv, IInv', HInv, HandleReclaimed
    PROVE  HInv'
<1> USE DEF notMain, envVars, heapVars, reloadVars, outVars
<1>1. /\ StageInv /\ mainPc = "handle" /\ mainPc' = "loop" /\ phase = "reclaim"
      /\ TryStartReload(mgr.tasks)
      /\ UNCHANGED <<live, listOf, failedOf, readAt, heap, allocCap, ctx, reloadTx, rlPc, mainBox, mgr>>
    BY Zenon DEF HandleReclaimed, HInv
<1>2. MainTurn /\ mainBox' = FALSE /\ ~ReloadTurn
    BY <1>1, Zenon DEF MainTurn, IInv, ProtocolInv, TurnInv, TypeOK, BoxTypeOK
<1>3. CommittedInv /\ QuietInv /\ Quiet
    BY <1>1, <1>2, Zenon DEF StageInv, Quiet
<1>4. mgr.tasks = Full(Base) /\ heap = Objects(Base) /\ live = listOf[Full(Base)] /\ ctx = NoCtx
    BY <1>3 DEF QuietInv
<1>5. mgr' = [mgr EXCEPT !.tasks = Full(Base)]
    BY <1>1, <1>4, Zenon DEF IInv, TypeOK, MainTypeOK
<1>6. ~reloadBox /\ rlPc \in {"recv", "exited"}
    BY <1>2, Zenon DEF ReloadTurn
<1> QED BY <1>1, <1>2, <1>3, <1>4, <1>5, <1>6, StartsQuiet, Zenon

(* The objects of different cycles and kinds differ. *)
LEMMA ObjectsApart ==
    ASSUME NEW a, NEW b, a # b
    PROVE  /\ Objects(a) \cap Objects(b) = {}
           /\ Survivors(a) \notin Objects(a) \cup Objects(b)
           /\ Full(a) # Full(b)
BY DEF Objects, Survivors, Full

(* Main installs the new set, or polls the restored old one. *)
LEMMA HandleNewTasksHeap ==
    ASSUME IInv, IInv', HInv, HandleNewTasks
    PROVE  HInv'
<1> USE DEF notMain, envVars, heapVars, reloadVars, outVars
<1>1. /\ StageInv /\ mainPc = "handle" /\ mainPc' = "loop" /\ phase = "newTasks"
      /\ UNCHANGED <<live, listOf, failedOf, readAt, ctx, reloadTx, rlPc, mainBox>>
    BY Zenon DEF HandleNewTasks, HInv
<1>2. MainTurn /\ mainBox' = FALSE /\ ~ReloadTurn
    BY <1>1, Zenon DEF MainTurn, IInv, ProtocolInv, TurnInv, TypeOK, BoxTypeOK
<1>3. CommittedInv
    BY <1>1, Zenon DEF StageInv
<1>4. ~reloadBox /\ rlPc \in {"recv", "exited"}
    BY <1>2 DEF ReloadTurn
<1>5. cycle \in Cycles /\ cycle \in Nat /\ Base \in Cycles
    BY <1>3, ReloadAssumption DEF IInv, TypeOK, EnvTypeOK, Cycles, CommittedInv
<1>6. CASE reloadTx.type = "NEW_TASKS"
  <2>1. Built /\ BuiltInv
      BY <1>1, <1>2, <1>6, Zenon DEF Built, StageInv
  <2>2. reloadTx = Msg("NEW_TASKS", Full(cycle), <<"errors", cycle>>, <<"config", cycle>>)
      BY <2>1, Zenon DEF BuiltInv
  <2>3. /\ mgr' = [tasks |-> Full(cycle), errors |-> <<"errors", cycle>>, config |-> <<"config", cycle>>]
        /\ heap' = heap \ {mgr.tasks}
        /\ allocCap' = ResizeTo(readAt[cycle])
        /\ mainTx' = Msg("RECLAIM", Full(cycle), mgr.errors, mgr.config) /\ reloadBox' = TRUE
        /\ phase' = "reclaim" /\ cycle' = cycle
      BY <1>6, <2>2, Zenon DEF HandleNewTasks, RequestTo, Msg
  <2>4. Reclaiming' /\ ~MainTurn'
      BY <1>1, <1>2, <2>3, Zenon DEF Reclaiming, ReloadTurn, MainTurn
  <2>5. ~Quiet' /\ ~Planned' /\ ~Building' /\ ~BuildFailed' /\ ~Built'
      BY <2>3, <2>4, Zenon DEF Quiet, Planned, Building, BuildFailed, Built
  <2>6. Base' = cycle
      BY <2>3, Zenon DEF Base
  <2>7. ListOk(cycle) /\ ListOk(Base) /\ Succeeds(Base, cycle) /\ Base < cycle
      BY <1>3, <2>1, Zenon DEF BuiltInv, CommittedInv, Succeeds, BuiltFrom
  <2>8. \A c : ListOk(c)' <=> ListOk(c)
      BY <1>1, Zenon DEF ListOk, Sound
  <2>9. \A o, n : Succeeds(o, n)' <=> Succeeds(o, n)
      BY <1>1 DEF Succeeds, BuiltFrom, Kept, FindTasks, Fingerprints
  <2>10. CommittedInv'
    <3>1. ListOk(Base)'
        BY <2>6, <2>7, <2>8, Zenon
    <3> QED BY <1>5, <2>3, <2>6, <1>1, <3>1 DEF CommittedInv, ResizeTo
  <2>11. heap' = Objects(Base) \cup Objects(cycle)
    <3>1. heap = Objects(Base) \cup {Survivors(cycle)} \cup Objects(cycle) /\ mgr.tasks = Survivors(cycle)
        BY <2>1, Zenon DEF BuiltInv
    <3>2. Base # cycle
        BY <1>5, <2>7 DEF Cycles
    <3> QED BY <2>3, <3>1, <3>2, ObjectsApart, Zenon
  <2>12. ReclaimingInv'
    <3>1. /\ ctx = [current |-> Full(Base), old |-> Full(Base), config |-> NULL]
          /\ live = listOf[Full(Base)] \cup listOf[Full(cycle)]
        BY <2>1, Zenon DEF BuiltInv
    <3>2. mainTx' = Msg("RECLAIM", Full(cycle), <<"errors", Base>>, <<"config", Base>>)
        BY <1>3, <2>3, Zenon DEF CommittedInv
    <3>3. mainTx'.config[2] = Base
        BY <3>2, Zenon DEF Msg
    <3>4. mgr'.tasks = Full(cycle)
        BY <2>3, Zenon
    <3> HIDE DEF notMain, envVars, heapVars, reloadVars, outVars
    <3> QED BY <1>1, <1>5, <2>3, <2>6, <2>7, <2>8, <2>9, <2>11, <3>1, <3>2, <3>3, <3>4, Zenon
               DEF ReclaimingInv
  <2> QED BY <1>1, <2>5, <2>10, <2>12, Zenon
          DEF HInv, StageInv, QuietInv, LoadingInv, BuildFailedInv, BuiltInv
<1>7. CASE reloadTx.type # "NEW_TASKS"
  <2>1. reloadTx.type = "ERROR"
      BY <1>1, <1>2, <1>7, Zenon DEF IInv, ProtocolInv, TurnInv
  <2>2. BuildFailed /\ BuildFailedInv
      BY <1>1, <1>2, <2>1, Zenon DEF BuildFailed, StageInv
  <2>3. reloadTx.tasks = Full(Base) /\ Full(Base) # NULL
      BY <1>5, <2>2, ReloadAssumption DEF BuildFailedInv, Msg, Full, Object
  <2>4. /\ mgr' = [mgr EXCEPT !.tasks = Full(Base)] /\ heap' = heap \ {mgr.tasks}
        /\ TryStartReload(mgr'.tasks) /\ allocCap' = allocCap
      BY <1>7, <2>1, <2>3, Zenon DEF HandleNewTasks
  <2>5. mgr'.tasks = Full(Base)
      BY <2>4, Zenon DEF IInv, TypeOK, MainTypeOK
  <2>6. heap' = Objects(Base) /\ live' = listOf[Full(Base)] /\ ctx' = NoCtx
    <3>1. Base # cycle
        BY <1>5, <2>2 DEF Cycles, BuildFailedInv
    <3> QED BY <1>1, <2>2, <2>4, <3>1, ObjectsApart DEF BuildFailedInv
  <2>7. TryStartReload(Full(Base))
      BY <2>4, <2>5, Zenon
  <2> QED BY <1>1, <1>2, <1>3, <1>4, <2>4, <2>6, <2>7, StartsQuiet, Zenon
<1> QED BY <1>6, <1>7, Zenon

(* In every stage the polled list is the committed one or its part that    *)
(* the next configuration keeps, and is open; no list has an older task    *)
(* dropped by a younger task's configuration.                              *)
LEMMA StageOrder ==
    ASSUME IInv, StageInv
    PROVE  OldStopsFirst
<1> DEFINE Ordered(list, open) ==
        \A t \in list, u \in open : u.cycle > t.cycle => t.fp \in readAt[u.cycle].tasks
<1> USE DEF StageInv
<1>1. Ordered(listOf[Full(Base)], listOf[Full(Base)])
    BY Zenon DEF CommittedInv, ListOk, Sound
<1>2. CASE Quiet
    BY <1>1, <1>2, Zenon DEF QuietInv, OldStopsFirst, Polled
<1>3. CASE Planned \/ Building
    BY <1>1, <1>3, Zenon DEF LoadingInv, OldStopsFirst, Polled, Kept, FindTasks
<1>4. CASE BuildFailed
    BY <1>1, <1>4, Zenon DEF BuildFailedInv, OldStopsFirst, Polled
<1>5. CASE Built
  <2>1. /\ live = listOf[Full(Base)] \cup listOf[Full(cycle)] /\ Polled = Kept(Base, cycle)
        /\ Kept(Base, cycle) \subseteq listOf[Full(cycle)]
        /\ Kept(Base, cycle) \subseteq listOf[Full(Base)]
      BY <1>5, Zenon DEF BuiltInv, Succeeds, BuiltFrom, Polled, Kept, FindTasks
  <2>2. Ordered(listOf[Full(cycle)], listOf[Full(cycle)])
      BY <1>5, Zenon DEF BuiltInv, ListOk, Sound
  <2> QED BY <1>1, <2>1, <2>2, Zenon DEF OldStopsFirst
<1>6. CASE Reclaiming
  <2>1. PICK o \in Cycles : /\ live = listOf[Full(o)] \cup listOf[Full(cycle)]
                            /\ mgr.tasks = Full(cycle) /\ Base = cycle
                            /\ ListOk(o) /\ Succeeds(o, cycle)
      BY <1>6, Zenon DEF ReclaimingInv
  <2>2. Ordered(listOf[Full(o)], listOf[Full(o)])
      BY <2>1, Zenon DEF ListOk, Sound
  <2>3. \A t \in listOf[Full(cycle)] \ Kept(o, cycle) : t.cycle = cycle
      BY <2>1, Zenon DEF Succeeds, BuiltFrom
  <2>4. o \in Nat /\ \A u \in listOf[Full(o)] : u.cycle \in 0 .. o
      BY <2>1, ListAges, Zenon DEF IInv, TypeOK
  <2>5. o \in Nat /\ cycle \in Nat /\ o < cycle
      BY <2>1, ReloadAssumption DEF Cycles, Succeeds, BuiltFrom, IInv, TypeOK, EnvTypeOK
  <2>6. Kept(o, cycle) \subseteq listOf[Full(o)]
      BY Zenon DEF Kept, FindTasks
  <2>7. ASSUME NEW t \in Polled, NEW u \in listOf[Full(o)], u.cycle > t.cycle
        PROVE  t.fp \in readAt[u.cycle].tasks
    <3>1. t.cycle # cycle
        BY <2>4, <2>5, <2>7
    <3>2. t \in Kept(o, cycle)
        BY <2>1, <2>3, <3>1, Zenon DEF Polled
    <3> QED BY <2>2, <2>6, <2>7, <3>2, Zenon
  <2> QED BY <1>1, <2>1, <2>7, Zenon DEF OldStopsFirst, Polled
<1>7. Quiet \/ Planned \/ Building \/ BuildFailed \/ Built \/ Reclaiming
    BY Zenon DEF IInv, TypeOK, MainTypeOK, ProtocolInv, TurnInv, Quiet, Planned, Building, BuildFailed,
           Built, Reclaiming
<1> QED BY <1>2, <1>3, <1>4, <1>5, <1>6, <1>7, Zenon

(* task_manager_destroy frees what task_mgr holds, with no thread left.    *)
LEMMA DestroyHeap ==
    ASSUME IInv, IInv', HInv, Destroy
    PROVE  HInv'
<1> USE DEF boxVars, reloadVars, outVars, envVars
<1>1. /\ StageInv /\ mainPc' = "exited" /\ live' = live \ Polled
      /\ heap' = heap \ {mgr.tasks, mgr.errors, mgr.config}
      /\ UNCHANGED <<listOf, readAt, phase, mgr>>
    BY Zenon DEF Destroy, HInv
<1>2. rlPc = "exited"
    BY Zenon DEF Destroy, IInv, ThreadInv
<1>3. phase = "idle" => live' = {} /\ heap' = {}
    BY <1>1, Zenon DEF StageInv, CommittedInv, QuietInv, Quiet, Objects, Full, Polled
<1>4. OldStopsFirst'
  <2>1. OldStopsFirst
      BY <1>1, StageOrder, Zenon DEF HInv, Destroy
  <2> QED BY <1>1, <2>1, Zenon DEF OldStopsFirst, Polled
<1> QED BY <1>1, <1>3, <1>4, Zenon DEF HInv, ExitInv

(* The reload thread stops between two steps, and frees the configuration  *)
(* it was loading.                                                         *)
LEMMA ReloadExitHeap ==
    ASSUME IInv, IInv', HInv, ReloadExit
    PROVE  HInv'
<1> USE DEF notReload, envVars, mainVars
<1>1. /\ mainPc # "exited" /\ mainPc' # "exited" /\ rlPc = "recv" /\ rlPc' = "exited"
      /\ heap' = heap \ {ctx.config}
      /\ UNCHANGED <<live, listOf, failedOf, readAt, phase, cycle, mgr, allocCap, ctx,
                     mainTx, reloadTx, mainPc, mainBox, reloadBox>>
    BY Zenon DEF ReloadExit, IInv, ThreadInv
<1>2. StageInv
    BY <1>1, Zenon DEF HInv
<1>3. (ReloadTurn' <=> ReloadTurn) /\ (MainTurn' <=> MainTurn)
    BY <1>1, Zenon DEF ReloadTurn, MainTurn
<1>4. /\ Quiet' <=> Quiet
      /\ Planned' <=> Planned
      /\ Building' <=> Building
      /\ BuildFailed' <=> BuildFailed
      /\ Built' <=> Built
      /\ Reclaiming' <=> Reclaiming
    BY <1>1, <1>3, Zenon DEF Quiet, Planned, Building, BuildFailed, Built, Reclaiming
<1>5. \A c : ListOk(c)' <=> ListOk(c)
    BY <1>1, Zenon DEF ListOk, Sound
<1>6. \A o, n : (Succeeds(o, n)' <=> Succeeds(o, n)) /\ Kept(o, n)' = Kept(o, n)
    BY <1>1 DEF Succeeds, BuiltFrom, Kept, FindTasks, Fingerprints
<1>7. Base' = Base /\ Base \in Nat /\ cycle \in Nat
    BY <1>1, <1>2, ReloadAssumption DEF Base, StageInv, CommittedInv, IInv, TypeOK, EnvTypeOK, Cycles
<1>8. NULL \notin heap
    BY ReloadAssumption, Zenon DEF IInv, TypeOK, HeapTypeOK
<1>9. CommittedInv' /\ QuietInv'
    BY <1>1, <1>2, <1>3, <1>4, <1>5, <1>7, <1>8
       DEF StageInv, CommittedInv, QuietInv, Held, NoCtx
<1>10. LoadingInv'
  <2>1. SUFFICES ASSUME Planned \/ Building PROVE LoadingInv'
      BY <1>4, Zenon DEF LoadingInv
  <2>2. LoadingInv
      BY <1>2, Zenon DEF StageInv
  <2>3. ctx.config = <<"config", cycle>>
      BY <2>1, <2>2 DEF LoadingInv
  <2>4. Base # cycle
      BY <2>1, <2>2, <1>7 DEF LoadingInv
  <2>5. heap' = Objects(Base) \cup {Survivors(cycle)} \cup LoadedConfig'
    <3>1. heap = Objects(Base) \cup {Survivors(cycle), <<"config", cycle>>}
        BY <1>1, <2>1, <2>2, Zenon DEF LoadingInv, LoadedConfig
    <3>2. LoadedConfig' = {}
        BY <1>1, Zenon DEF LoadedConfig
    <3>3. <<"config", cycle>> \notin Objects(Base) \cup {Survivors(cycle)}
        BY <2>4, Zenon DEF Objects, Survivors, Full
    <3> QED BY <1>1, <2>3, <3>1, <3>2, <3>3, Zenon
  <2> HIDE DEF notReload, envVars, mainVars
  <2> QED BY <1>1, <1>4, <1>6, <1>7, <2>1, <2>2, <2>5, Zenon DEF LoadingInv
<1>10a. ctx.config = NULL => heap' = heap
    BY <1>1, <1>8, Zenon
<1>11. BuildFailedInv'
  <2> SUFFICES ASSUME BuildFailed PROVE BuildFailedInv'
      BY <1>4, Zenon DEF BuildFailedInv
  <2>1. BuildFailedInv /\ ctx = NoCtx
      BY <1>2, Zenon DEF StageInv, BuildFailedInv
  <2>2. heap' = heap
      BY <1>10a, <2>1, Zenon DEF NoCtx
  <2> QED BY <1>1, <1>7, <2>1, <2>2, Zenon DEF BuildFailedInv
<1>12. BuiltInv'
  <2> SUFFICES ASSUME Built PROVE BuiltInv'
      BY <1>4, Zenon DEF BuiltInv
  <2>1. BuiltInv /\ ctx.config = NULL
    <3>1. BuiltInv
        BY <1>2, Zenon DEF StageInv
    <3>2. ctx = [current |-> Full(Base), old |-> Full(Base), config |-> NULL]
        BY <3>1, Zenon DEF BuiltInv
    <3> QED BY <3>1, <3>2, Zenon
  <2>2. heap' = heap
      BY <1>10a, <2>1, Zenon
  <2> HIDE DEF notReload, envVars, mainVars
  <2> QED BY <1>1, <1>5, <1>6, <1>7, <2>1, <2>2, Zenon DEF BuiltInv
<1>13. ReclaimingInv'
  <2> SUFFICES ASSUME Reclaiming PROVE ReclaimingInv'
      BY <1>4, Zenon DEF ReclaimingInv
  <2>1. ReclaimingInv
      BY <1>2, Zenon DEF StageInv
  <2>2. heap' = heap
    <3>1. PICK o : ctx = [current |-> Full(o), old |-> Full(o), config |-> NULL]
        BY <2>1, Zenon DEF ReclaimingInv
    <3>2. ctx.config = NULL
        BY <3>1, Zenon
    <3> QED BY <1>10a, <3>2, Zenon
  <2> HIDE DEF notReload, envVars, mainVars
  <2> QED BY <1>1, <1>5, <1>6, <1>7, <2>1, <2>2, Zenon DEF ReclaimingInv
<1> QED BY <1>1, <1>9, <1>10, <1>11, <1>12, <1>13, Zenon DEF HInv, StageInv

(* reload_do_plan reads the configuration of this cycle, which no list of  *)
(* an earlier cycle depends on.                                            *)
LEMMA PlanKeeps ==
    ASSUME IInv, CommittedInv, Base < cycle,
           readAt' = [readAt EXCEPT ![cycle] = file],
           listOf'[Full(Base)] = listOf[Full(Base)],
           UNCHANGED <<failedOf, mgr, allocCap, cycle>>
    PROVE  CommittedInv' /\ Base' = Base /\ readAt'[cycle] = file
<1>1. Base \in Cycles /\ cycle \in Cycles /\ cycle \in Nat /\ Base \in Nat
    BY ReloadAssumption DEF IInv, TypeOK, EnvTypeOK, Cycles, CommittedInv
<1>2. readAt'[cycle] = file /\ \A i \in Cycles : i # cycle => readAt'[i] = readAt[i]
    BY <1>1, Zenon DEF IInv, TypeOK, HeapTypeOK
<1>3. \A i \in 0 .. Base : readAt'[i] = readAt[i]
    BY <1>1, <1>2, ReloadAssumption DEF Cycles
<1>4. Base' = Base
    BY Zenon DEF Base
<1>5. ListOk(Base)'
  <2> DEFINE c == Base
  <2>1. c \in Cycles /\ ListOk(c) /\ HeapTypeOK
      BY <1>1, Zenon DEF CommittedInv, IInv, TypeOK
  <2>2. /\ listOf'[Full(c)] = listOf[Full(c)] /\ failedOf'[c] = failedOf[c]
        /\ \A i \in 0 .. c : readAt'[i] = readAt[i]
      BY <1>3, Zenon
  <2>3. c \in 0 .. c
      BY <1>1
  <2>4. \A t \in listOf[Full(c)] : t.cycle \in 0 .. c
      BY <2>1, ListAges, Zenon
  <2>5. readAt'[c] = readAt[c] /\ \A u \in listOf[Full(c)] : readAt'[u.cycle] = readAt[u.cycle]
      BY <2>2, <2>3, <2>4, Zenon
  <2> HIDE DEF c
  <2>6. c' = c
      BY <1>4, Zenon DEF c
  <2>7. ListOk(c)'
      BY <2>1, <2>2, <2>5, <2>6 DEF ListOk, Sound
  <2> QED BY <2>7, Zenon DEF c
<1>6. readAt'[Base] = readAt[Base]
    BY <1>1, <1>2
<1> QED BY <1>2, <1>4, <1>5, <1>6, Zenon DEF CommittedInv

(* The plan fails: nothing of it is kept. *)
LEMMA PlanFailsHeap ==
    ASSUME IInv, IInv', HInv, PlanFails
    PROVE  HInv'
<1> USE DEF notReload, envVars, mainVars
<1>1. /\ mainPc # "exited" /\ mainPc' # "exited" /\ rlPc = "plan" /\ rlPc' = "recv"
      /\ readAt' = [readAt EXCEPT ![cycle] = file]
      /\ ctx' = CtxReset
      /\ reloadTx' = Msg("ERROR", NULL, NULL, NULL) /\ mainBox' = TRUE
      /\ UNCHANGED <<live, heap, listOf, failedOf, phase, cycle, mgr, allocCap, mainPc, reloadBox>>
    BY Zenon DEF PlanFails, ReportTo, IInv, ThreadInv
<1>2. ReloadTurn /\ phase = "survivors" /\ MainTurn' /\ ~ReloadTurn'
    BY <1>1, Zenon DEF IInv, ProtocolInv, TurnInv, ReloadTurn, MainTurn
<1>3. Quiet /\ QuietInv /\ CommittedInv /\ Base < cycle
    BY <1>1, <1>2, Zenon DEF HInv, StageInv, Quiet, QuietInv
<1>4. CommittedInv' /\ Base' = Base
    BY <1>1, <1>3, PlanKeeps, Zenon
<1>5. Quiet' /\ ~Planned' /\ ~Building' /\ ~BuildFailed' /\ ~Built' /\ ~Reclaiming'
    BY <1>1, <1>2, Zenon DEF Quiet, Planned, Building, BuildFailed, Built, Reclaiming, Msg
<1>6. ctx' = NoCtx
  <2>1. ctx = NoCtx
      BY <1>3, Zenon DEF QuietInv
  <2> QED BY <1>1, <2>1, Zenon DEF CtxReset, NoCtx
<1>7. Held(reloadTx)' = {NULL}
    BY <1>1, Zenon DEF Held, Msg
<1>8. QuietInv'
    BY <1>1, <1>2, <1>3, <1>4, <1>6, <1>7, Zenon DEF QuietInv
<1> QED BY <1>1, <1>4, <1>5, <1>8, Zenon
        DEF HInv, StageInv, LoadingInv, BuildFailedInv, BuiltInv, ReclaimingInv

(* The plan succeeds: the surviving subset and the configuration are new.  *)
LEMMA PlanHeap ==
    ASSUME IInv, IInv', HInv, Plan
    PROVE  HInv'
<1> USE DEF notReload, envVars, mainVars
<1>1. /\ mainPc # "exited" /\ mainPc' # "exited" /\ rlPc = "plan" /\ rlPc' = "recv"
      /\ readAt' = [readAt EXCEPT ![cycle] = file]
      /\ file \in Configs /\ NoFp \notin file.tasks
      /\ heap' = heap \cup {<<"config", cycle>>, Survivors(cycle)}
      /\ listOf' = [listOf EXCEPT ![Survivors(cycle)] = FindTasks(file.tasks, mainTx.tasks)]
      /\ ctx' = [ctx EXCEPT !.current = mainTx.tasks, !.config = <<"config", cycle>>]
      /\ reloadTx' = Msg("SURVIVORS", Survivors(cycle), NULL, NULL) /\ mainBox' = TRUE
      /\ UNCHANGED <<live, failedOf, phase, cycle, mgr, allocCap, mainPc, reloadBox>>
    BY Zenon DEF Plan, ReportTo, IInv, ThreadInv, Survivors, TypeOK, EnvTypeOK
<1>2. ReloadTurn /\ phase = "survivors" /\ MainTurn' /\ ~ReloadTurn'
    BY <1>1, Zenon DEF IInv, ProtocolInv, TurnInv, ReloadTurn, MainTurn
<1>3. Quiet /\ QuietInv /\ CommittedInv /\ Base < cycle
    BY <1>1, <1>2, Zenon DEF HInv, StageInv, Quiet, QuietInv
<1>4. cycle \in Cycles /\ Base \in Cycles
    BY <1>3, ReloadAssumption DEF IInv, TypeOK, EnvTypeOK, Cycles, CommittedInv
<1>5. Survivors(cycle) \in ListPtr /\ Full(Base) \in ListPtr /\ Survivors(cycle) # Full(Base)
    BY <1>4, Zenon DEF Survivors, Full, ListPtr
<1>6. /\ listOf'[Survivors(cycle)] = FindTasks(file.tasks, mainTx.tasks)
      /\ listOf'[Full(Base)] = listOf[Full(Base)]
    BY <1>1, <1>5, Zenon DEF IInv, TypeOK, HeapTypeOK
<1>7. CommittedInv' /\ Base' = Base /\ readAt'[cycle] = file
    BY <1>1, <1>3, <1>6, PlanKeeps, Zenon
<1>8. Planned' /\ ~Quiet' /\ ~Building' /\ ~BuildFailed' /\ ~Built' /\ ~Reclaiming'
    BY <1>1, <1>2, Zenon DEF Quiet, Planned, Building, BuildFailed, Built, Reclaiming, Msg
<1>9. mainTx.tasks = Full(Base)
    BY <1>2, <1>3 DEF QuietInv, Msg
<1>10. listOf'[Survivors(cycle)] = Kept(Base, cycle)'
    BY <1>1, <1>6, <1>7, <1>9, Zenon DEF Kept, FindTasks
<1>11. ctx' = [current |-> Full(Base), old |-> NULL, config |-> <<"config", cycle>>]
  <2>1. ctx = NoCtx
      BY <1>3 DEF QuietInv
  <2> QED BY <1>1, <1>9, <2>1, Zenon DEF NoCtx
<1>12. heap' = Objects(Base) \cup {Survivors(cycle)} \cup LoadedConfig'
  <2>1. LoadedConfig' = {<<"config", cycle>>}
      BY <1>1, Zenon DEF LoadedConfig
  <2>2. heap = Objects(Base)
      BY <1>3, Zenon DEF QuietInv
  <2> QED BY <1>1, <2>1, <2>2, Zenon
<1>13. mgr.tasks = Full(Base) /\ live = listOf[Full(Base)]
    BY <1>3, Zenon DEF QuietInv
<1>14. LoadingInv'
  <2> HIDE DEF notReload, envVars, mainVars
  <2> QED BY <1>1, <1>3, <1>6, <1>7, <1>8, <1>10, <1>11, <1>12, <1>13, Zenon DEF LoadingInv
<1> QED BY <1>1, <1>7, <1>8, <1>14, Zenon
        DEF HInv, StageInv, QuietInv, BuildFailedInv, BuiltInv, ReclaimingInv

(* The list that build_full_task_set makes of a sound list is sound: the   *)
(* kept tasks and a new one for each other task that can be opened.        *)
LEMMA BuiltList ==
    ASSUME HeapTypeOK, NEW o \in Cycles, NEW n \in Cycles, o < n, ListOk(o),
           NoFp \notin readAt[n].tasks,
           NEW failed, failed \subseteq readAt[n].tasks \ Fingerprints(Full(o))
    PROVE  Sound(BuiltFrom(o, n, failed), n, failed)
<1> DEFINE wanted == readAt[n].tasks
           known == Fingerprints(Full(o))
           New == [cycle : {n}, fp : wanted \ (failed \cup known)]
           L == BuiltFrom(o, n, failed)
<1>1. o \in Nat /\ n \in Nat
    BY ReloadAssumption DEF Cycles
<1>2. \A t \in Kept(o, n) : /\ t \in listOf[Full(o)] /\ t.fp \in wanted /\ t.fp \in known
                            /\ t.cycle \in 0 .. o
    BY ListAges, Zenon DEF Kept, FindTasks, Fingerprints
<1>3. \A t \in New : t.cycle = n /\ t.fp \in wanted /\ t.fp \notin failed /\ t.fp \notin known
    OBVIOUS
<1>4. \A f \in wanted \cap known : \E t \in Kept(o, n) : t.fp = f
    BY Zenon DEF Kept, FindTasks, Fingerprints
<1>5. \A f \in wanted \ (failed \cup known) : \E t \in New : t.fp = f
  <2>1. TAKE f \in wanted \ (failed \cup known)
  <2>2. [cycle |-> n, fp |-> f] \in New
      OBVIOUS
  <2> QED BY <2>2, Zenon
<1>6. \A t, u \in New : t.fp = u.fp => t = u
    OBVIOUS
<1>7. L = Kept(o, n) \cup New
    BY Zenon DEF BuiltFrom
<1>8. \A t, u \in Kept(o, n) :
         /\ t.fp = u.fp => t = u
         /\ u.cycle > t.cycle => t.fp \in readAt[u.cycle].tasks
    BY <1>2, Zenon DEF ListOk, Sound
<1> HIDE DEF New, wanted, known, L
<1>9. failed \cap known = {} /\ failed \subseteq wanted
    BY Zenon DEF wanted, known
<1>10. {t.fp : t \in L} = wanted \ failed
  <2>1. \A t \in L : t.fp \in wanted \ failed
      BY <1>2, <1>3, <1>7, <1>9, Zenon
  <2>2. \A f \in wanted \ failed : \E t \in L : t.fp = f
      BY <1>4, <1>5, <1>7, Zenon
  <2> QED BY <2>1, <2>2, Zenon
<1>11. \A t \in L : t.cycle <= n /\ t.fp \in wanted
    BY <1>1, <1>2, <1>3, <1>7
<1>12. ASSUME NEW t \in L, NEW u \in L
       PROVE  /\ t.fp = u.fp => t = u
              /\ u.cycle > t.cycle => t.fp \in readAt[u.cycle].tasks
  <2>1. CASE t \in Kept(o, n) /\ u \in Kept(o, n)
      BY <1>8, <2>1, Zenon
  <2>2. CASE u \in New
      BY <1>2, <1>3, <1>6, <1>7, <1>11, <2>2, Zenon DEF wanted
  <2>3. CASE u \in Kept(o, n) /\ t \in New
    <3>1. t.fp # u.fp
        BY <1>2, <1>3, <2>3, Zenon
    <3>2. ~(u.cycle > t.cycle)
        BY <1>1, <1>2, <1>3, <2>3
    <3> QED BY <3>1, <3>2, Zenon
  <2> QED BY <1>7, <2>1, <2>2, <2>3, Zenon
<1> QED BY <1>10, <1>11, <1>12, Zenon DEF wanted, L, Sound

(* What the reload thread finds when it builds. *)
LEMMA AtBuild ==
    ASSUME IInv, HInv, rlPc = "build"
    PROVE  /\ Building /\ LoadingInv /\ CommittedInv /\ phase = "newTasks"
           /\ cycle \in Cycles /\ Base \in Cycles /\ Base < cycle /\ Base # cycle
           /\ mgr.tasks = Survivors(cycle)
           /\ heap = Objects(Base) \cup {Survivors(cycle), <<"config", cycle>>}
           /\ live = listOf[Full(Base)]
           /\ listOf[Survivors(cycle)] = Kept(Base, cycle)
           /\ readAt[cycle] \in Configs /\ NoFp \notin readAt[cycle].tasks
           /\ ctx = [current |-> Full(Base), old |-> NULL, config |-> <<"config", cycle>>]
           /\ ctx.config[2] = cycle
           /\ mainTx.tasks = Full(Base)
<1>1. mainPc # "exited"
    BY Zenon DEF IInv, ThreadInv
<1>2. Building /\ LoadingInv /\ CommittedInv /\ phase = "newTasks"
    BY <1>1, Zenon DEF HInv, StageInv, Building, IInv, ProtocolInv, TurnInv, ReloadTurn
<1>3. cycle \in Cycles /\ Base \in Cycles /\ Base < cycle /\ Base # cycle
    BY <1>2, ReloadAssumption DEF IInv, TypeOK, EnvTypeOK, Cycles, CommittedInv, LoadingInv
<1>4. ~Planned
    BY <1>2, Stages, Zenon
<1> QED BY <1>2, <1>3, <1>4 DEF LoadingInv, LoadedConfig, Msg

(* The new set is built. *)
LEMMA BuildHeap ==
    ASSUME IInv, IInv', HInv, NEW failed, Build(failed)
    PROVE  HInv'
<1> DEFINE Wanted == readAt[cycle].tasks
           L == BuiltFrom(Base, cycle, failed)
<1>1. rlPc = "build"
    BY Zenon DEF Build
<1>2. /\ Building /\ CommittedInv /\ phase = "newTasks"
      /\ cycle \in Cycles /\ Base \in Cycles /\ Base < cycle /\ Base # cycle
      /\ mgr.tasks = Survivors(cycle)
      /\ heap = Objects(Base) \cup {Survivors(cycle), <<"config", cycle>>}
      /\ live = listOf[Full(Base)]
      /\ listOf[Survivors(cycle)] = Kept(Base, cycle)
      /\ readAt[cycle] \in Configs /\ NoFp \notin readAt[cycle].tasks
    BY <1>1, AtBuild, Zenon
<1>3. /\ ctx = [current |-> Full(Base), old |-> NULL, config |-> <<"config", cycle>>]
      /\ ctx.config[2] = cycle /\ ctx.current = Full(Base) /\ mainTx.tasks = Full(Base)
    BY <1>1, AtBuild
<1> USE DEF notReload, envVars, mainVars
<1>4. /\ mainPc # "exited" /\ mainPc' # "exited" /\ rlPc' = "recv"
      /\ failed \subseteq Wanted \ Fingerprints(Full(Base))
      /\ live' = live \cup Opened(Wanted, failed)
      /\ heap' = heap \cup {Full(cycle), <<"errors", cycle>>}
      /\ listOf' = [listOf EXCEPT ![Full(cycle)] = Reused(Wanted) \cup Opened(Wanted, failed)]
      /\ failedOf' = [failedOf EXCEPT ![cycle] = failed]
      /\ ctx' = [ctx EXCEPT !.old = Full(Base), !.config = NULL]
      /\ reloadTx' = Msg("NEW_TASKS", Full(cycle), <<"errors", cycle>>, <<"config", cycle>>)
      /\ mainBox' = TRUE
    BY <1>3, Zenon DEF Build, ReportTo, IInv, ThreadInv, Full
<1>5. UNCHANGED <<readAt, phase, cycle, mgr, allocCap, mainPc, reloadBox>>
    BY Zenon DEF Build
<1> HIDE DEF notReload, envVars, mainVars
<1>6. Reused(Wanted) \cup Opened(Wanted, failed) = L
    BY <1>3, Zenon DEF Reused, Opened, Kept, BuiltFrom
<1>7. Full(cycle) \in ListPtr /\ Full(cycle) # Full(Base) /\ Full(cycle) # Survivors(cycle)
    BY <1>2, Zenon DEF Full, Survivors, ListPtr
<1>8. /\ listOf'[Full(cycle)] = L
      /\ listOf'[Full(Base)] = listOf[Full(Base)]
      /\ listOf'[Survivors(cycle)] = listOf[Survivors(cycle)]
      /\ failedOf'[cycle] = failed
      /\ failedOf'[Base] = failedOf[Base]
    BY <1>2, <1>4, <1>6, <1>7, Zenon DEF IInv, TypeOK, HeapTypeOK, Full, Survivors, ListPtr
<1>9. Base' = Base
    BY <1>5, Zenon DEF Base
<1>10. MainTurn' /\ ~ReloadTurn'
  <2>1. ~reloadBox
      BY <1>1, Zenon DEF IInv, ProtocolInv, TurnInv
  <2> QED BY <1>4, <1>5, <2>1, Zenon DEF MainTurn, ReloadTurn
<1>11. Built' /\ ~Quiet' /\ ~Planned' /\ ~Building' /\ ~BuildFailed' /\ ~Reclaiming'
    BY <1>2, <1>4, <1>5, <1>10, Zenon DEF Quiet, Planned, Building, BuildFailed, Built, Reclaiming, Msg
<1>12. HeapTypeOK /\ ListOk(Base)
    BY <1>2, Zenon DEF CommittedInv, IInv, TypeOK
<1>13. Sound(L, cycle, failed)
    BY <1>2, <1>4, <1>12, BuiltList, Zenon
<1>14. Kept(Base, cycle)' = Kept(Base, cycle) /\ Fingerprints(Full(Base))' = Fingerprints(Full(Base))
    BY <1>5, <1>8, <1>9, Zenon DEF Kept, FindTasks, Fingerprints, Full
<1> HIDE DEF L
<1>15. ListOk(cycle)'
    BY <1>2, <1>5, <1>8, <1>13 DEF ListOk, Sound, Full
<1>16. ListOk(Base)'
    BY <1>5, <1>8, <1>9, <1>12 DEF ListOk, Sound, Full
<1>17. Succeeds(Base, cycle)'
  <2>1. BuiltFrom(Base, cycle, failed)' = L
      BY <1>5, <1>9, <1>14, Zenon DEF BuiltFrom, L
  <2> QED BY <1>2, <1>4, <1>5, <1>8, <1>9, <1>14, <2>1, Zenon DEF Succeeds, Full
<1>18. CommittedInv'
    BY <1>2, <1>5, <1>9, <1>16, Zenon DEF CommittedInv
<1>19. heap' = Objects(Base) \cup {Survivors(cycle)} \cup Objects(cycle)
    BY <1>2, <1>4, Zenon DEF Objects
<1>20. live' = listOf[Full(Base)] \cup L
  <2>1. Kept(Base, cycle) \subseteq listOf[Full(Base)]
      BY Zenon DEF Kept, FindTasks
  <2>2. Opened(Wanted, failed) = [cycle : {cycle}, fp : Wanted \ (failed \cup Fingerprints(Full(Base)))]
      BY <1>3, Zenon DEF Opened
  <2> QED BY <1>2, <1>4, <2>1, <2>2, Zenon DEF L, BuiltFrom
<1>21. ctx' = [current |-> Full(Base), old |-> Full(Base), config |-> NULL]
    BY <1>3, <1>4, Zenon
<1>22. BuiltInv'
  <2>1. /\ Full(Base)' = Full(Base) /\ Full(cycle)' = Full(cycle) /\ Survivors(cycle)' = Survivors(cycle)
        /\ Objects(Base)' = Objects(Base) /\ Objects(cycle)' = Objects(cycle)
      BY <1>5, <1>9, Zenon DEF Full, Survivors, Objects
  <2> HIDE DEF Wanted
  <2> QED BY <1>2, <1>4, <1>5, <1>8, <1>9, <1>14, <1>15, <1>17, <1>19, <1>20, <1>21, <2>1, Zenon
             DEF BuiltInv
<1> QED BY <1>4, <1>11, <1>18, <1>22, Zenon
        DEF HInv, StageInv, QuietInv, LoadingInv, BuildFailedInv, ReclaimingInv

(* The build fails: what it opened is closed again, the rest stays. *)
LEMMA BuildFailsHeap ==
    ASSUME IInv, IInv', HInv, NEW done, BuildFails(done)
    PROVE  HInv'
<1>1. rlPc = "build"
    BY Zenon DEF BuildFails
<1>2. /\ Building /\ CommittedInv /\ phase = "newTasks"
      /\ cycle \in Cycles /\ Base \in Cycles /\ Base < cycle /\ Base # cycle
      /\ mgr.tasks = Survivors(cycle)
      /\ heap = Objects(Base) \cup {Survivors(cycle), <<"config", cycle>>}
      /\ live = listOf[Full(Base)]
      /\ listOf[Survivors(cycle)] = Kept(Base, cycle)
    BY <1>1, AtBuild, Zenon
<1>3. /\ ctx = [current |-> Full(Base), old |-> NULL, config |-> <<"config", cycle>>]
      /\ ctx.config = <<"config", cycle>> /\ ctx.current = Full(Base) /\ mainTx.tasks = Full(Base)
    BY <1>1, AtBuild
<1> DEFINE Removed == {t \in Reused(done) \cup Opened(done, {}) : t.fp \notin Fingerprints(ctx.current)}
<1> USE DEF notReload, envVars, mainVars
<1>4. /\ mainPc # "exited" /\ mainPc' # "exited" /\ rlPc' = "recv"
      /\ live' = (live \cup Opened(done, {})) \ Removed
      /\ heap' = heap \ {<<"config", cycle>>}
      /\ ctx' = [CtxReset EXCEPT !.config = NULL]
      /\ reloadTx' = Msg("ERROR", Full(Base), NULL, NULL)
      /\ mainBox' = TRUE
    BY <1>3, Zenon DEF BuildFails, ReportTo, IInv, ThreadInv
<1>5. UNCHANGED <<listOf, failedOf, readAt, phase, cycle, mgr, allocCap, mainPc, reloadBox>>
    BY Zenon DEF BuildFails
<1> HIDE DEF notReload, envVars, mainVars
<1>6. live' = live
  <2>1. Removed = Opened(done, {})
    <3>1. \A t \in Reused(done) : t.fp \in Fingerprints(ctx.current)
        BY Zenon DEF Reused, FindTasks, Fingerprints
    <3>2. \A t \in Opened(done, {}) : t.fp \notin Fingerprints(ctx.current)
        BY Zenon DEF Opened
    <3> QED BY <3>1, <3>2, Zenon
  <2>2. \A t \in live : t.cycle < cycle /\ t.cycle \in Int
    <3>1. ReloadTurn
        BY <1>2, Zenon DEF Building
    <3> QED BY <1>2, <3>1, ReloadAssumption
            DEF IInv, ProtocolInv, AgeInv, TypeOK, HeapTypeOK, Task, Cycles
  <2>3. \A t \in Opened(done, {}) : t.cycle = cycle
      BY Zenon DEF Opened
  <2>4. live \cap Opened(done, {}) = {}
      BY <1>2, <2>2, <2>3 DEF Cycles
  <2> HIDE DEF Removed
  <2> QED BY <1>4, <2>1, <2>4, Zenon
<1>7. heap' = Objects(Base) \cup {Survivors(cycle)}
  <2>1. <<"config", cycle>> \notin Objects(Base) \cup {Survivors(cycle)}
      BY <1>2, Zenon DEF Objects, Survivors, Full
  <2> QED BY <1>2, <1>4, <2>1, Zenon
<1>8. ctx' = NoCtx
    BY <1>3, <1>4, Zenon DEF CtxReset, NoCtx
<1>9. Base' = Base
    BY <1>5, Zenon DEF Base
<1>10. MainTurn' /\ ~ReloadTurn'
  <2>1. ~reloadBox
      BY <1>1 DEF IInv, ProtocolInv, TurnInv
  <2> QED BY <1>4, <1>5, <2>1, Zenon DEF MainTurn, ReloadTurn
<1>11. BuildFailed' /\ ~Quiet' /\ ~Planned' /\ ~Building' /\ ~Built' /\ ~Reclaiming'
    BY <1>2, <1>4, <1>5, <1>10, Zenon DEF Quiet, Planned, Building, BuildFailed, Built, Reclaiming, Msg
<1>12. ListOk(Base)'
  <2>1. ListOk(Base)
      BY <1>2, Zenon DEF CommittedInv
  <2> QED BY <1>5, <1>9, <2>1 DEF ListOk, Sound
<1>13. CommittedInv'
    BY <1>2, <1>5, <1>9, <1>12, Zenon DEF CommittedInv
<1>14. BuildFailedInv'
  <2>1. listOf[Survivors(cycle)] \subseteq listOf[Full(Base)]
      BY <1>2, Zenon DEF Kept, FindTasks
  <2> QED BY <1>2, <1>4, <1>5, <1>6, <1>7, <1>8, <1>9, <2>1, Zenon DEF BuildFailedInv
<1> QED BY <1>4, <1>11, <1>13, <1>14, Zenon
        DEF HInv, StageInv, QuietInv, LoadingInv, BuiltInv, ReclaimingInv

(* What reclaim_old_resources leaves of the old and the new list is the    *)
(* new one.                                                                *)
LEMMA ReclaimLeaves ==
    ASSUME IInv, NEW o \in Cycles, NEW n \in Cycles, ListOk(o), ListOk(n), Succeeds(o, n),
           ctx.old = Full(o), mainTx.tasks = Full(n)
    PROVE  (listOf[Full(o)] \cup listOf[Full(n)]) \ Unused = listOf[Full(n)]
<1>1. \A t \in listOf[Full(n)] : t.fp \in Fingerprints(Full(n))
    BY SMTT(30) DEF ListOk, Sound, Succeeds, Fingerprints
<1>2. ASSUME NEW t \in listOf[Full(o)], t.fp \in Fingerprints(Full(n))
      PROVE  t \in listOf[Full(n)]
  <2>1. PICK u \in listOf[Full(n)] : u.fp = t.fp
      BY <1>2, Zenon DEF Fingerprints
  <2>2. t.fp # NoFp
      BY <1>2, Zenon DEF Fingerprints
  <2>3. t.fp \in Fingerprints(Full(o))
      BY <2>2, Zenon DEF Fingerprints
  <2>4. u \in Kept(o, n)
      BY <2>1, <2>3 DEF Succeeds, BuiltFrom
  <2>5. u = t
      BY <2>1, <2>4, Zenon DEF Kept, FindTasks, ListOk, Sound
  <2> QED BY <2>5, Zenon
<1>3. Unused = {t \in listOf[Full(o)] : t.fp \notin Fingerprints(Full(n))}
    BY Zenon DEF Unused
<1> QED BY <1>1, <1>2, <1>3, Zenon

(* The old set is gone. *)
LEMMA ReclaimHeap ==
    ASSUME IInv, IInv', HInv, Reclaim
    PROVE  HInv'
<1> DEFINE o == mainTx.config[2]
<1> USE DEF notReload, envVars, mainVars
<1>1. /\ mainPc # "exited" /\ mainPc' # "exited" /\ rlPc = "free" /\ rlPc' = "recv"
      /\ live' = live \ Unused
      /\ heap' = heap \ {ctx.old, mainTx.errors, mainTx.config}
      /\ ctx' = CtxReset
      /\ reloadTx' = Msg("RECLAIMED", NULL, NULL, NULL) /\ mainBox' = TRUE
      /\ UNCHANGED <<listOf, failedOf, readAt, phase, cycle, mgr, allocCap, mainPc, reloadBox>>
    BY Zenon DEF Reclaim, ReportTo, IInv, ThreadInv
<1> HIDE DEF notReload, envVars, mainVars
<1>2. ReloadTurn /\ phase = "reclaim" /\ MainTurn' /\ ~ReloadTurn'
  <2>1. ~reloadBox
      BY <1>1, Zenon DEF IInv, ProtocolInv, TurnInv
  <2> QED BY <1>1, <2>1, Zenon DEF IInv, ProtocolInv, TurnInv, ReloadTurn, MainTurn
<1>3. Reclaiming /\ ReclaimingInv /\ CommittedInv
    BY <1>1, <1>2, Zenon DEF HInv, StageInv, Reclaiming
<1>4. /\ Base = cycle /\ mgr.tasks = Full(cycle) /\ o \in Cycles
      /\ heap = Objects(o) \cup Objects(cycle)
      /\ live = listOf[Full(o)] \cup listOf[Full(cycle)]
      /\ ListOk(o) /\ Succeeds(o, cycle)
      /\ ctx = [current |-> Full(o), old |-> Full(o), config |-> NULL]
      /\ mainTx = Msg("RECLAIM", Full(cycle), <<"errors", o>>, <<"config", o>>)
    BY <1>3, Zenon DEF ReclaimingInv
<1> HIDE DEF o
<1>5. /\ ctx.old = Full(o) /\ mainTx.tasks = Full(cycle)
      /\ mainTx.errors = <<"errors", o>> /\ mainTx.config = <<"config", o>>
    BY <1>4, Zenon DEF Msg
<1>6. cycle \in Cycles /\ ListOk(cycle) /\ o # cycle
    BY <1>3, <1>4, ReloadAssumption
       DEF IInv, TypeOK, EnvTypeOK, Cycles, CommittedInv, Succeeds
<1>7. live' = listOf[Full(cycle)]
    BY <1>1, <1>4, <1>5, <1>6, ReclaimLeaves, Zenon
<1>8. heap' = Objects(cycle)
  <2>1. heap' = heap \ Objects(o)
      BY <1>1, <1>5, Zenon DEF Objects
  <2> QED BY <1>4, <1>6, <2>1, ObjectsApart, Zenon
<1>9. ctx' = NoCtx
    BY <1>1, <1>4, Zenon DEF CtxReset, NoCtx
<1>10. Base' = cycle
    BY <1>1, <1>4, Zenon DEF Base
<1>11. Quiet' /\ ~Planned' /\ ~Building' /\ ~BuildFailed' /\ ~Built' /\ ~Reclaiming'
    BY <1>1, <1>2, Zenon DEF Quiet, Planned, Building, BuildFailed, Built, Reclaiming
<1>12. ListOk(Base)'
  <2>1. readAt' = readAt /\ listOf' = listOf /\ failedOf' = failedOf
      BY <1>1, Zenon
  <2> QED BY <1>6, <1>10, <2>1 DEF ListOk, Sound
<1>13. CommittedInv'
    BY <1>1, <1>3, <1>4, <1>10, <1>12, Zenon DEF CommittedInv
<1>14. Held(reloadTx)' = {NULL}
    BY <1>1, Zenon DEF Held, Msg
<1>15. QuietInv'
    BY <1>1, <1>2, <1>4, <1>7, <1>8, <1>9, <1>10, <1>14, Zenon DEF QuietInv
<1> QED BY <1>1, <1>11, <1>13, <1>15, Zenon
        DEF HInv, StageInv, LoadingInv, BuildFailedInv, BuiltInv, ReclaimingInv
-----------------------------------------------------------------------------
(* After start-up only the first configuration is there. *)
LEMMA InitHeap == Init => HInv
<1> SUFFICES ASSUME Init PROVE HInv
    OBVIOUS
<1>1. PICK failed \in SUBSET file.tasks :
         /\ failedOf = [c \in Cycles |-> IF c = 0 THEN failed ELSE {}]
         /\ live = [cycle : {0}, fp : file.tasks \ failed]
    BY Zenon DEF Init
<1>2. 0 \in Cycles /\ Full(0) \in ListPtr
    BY ReloadAssumption DEF Cycles, Full, ListPtr
<1>3. Base = 0 /\ phase = "idle" /\ mainPc = "loop" /\ ~MainTurn /\ ~ReloadTurn
    BY Zenon DEF Init, Base, MainTurn, ReloadTurn
<1>4. listOf[Full(0)] = live /\ failedOf[0] = failed /\ readAt[0] = file
  <2>1. failedOf[0] = failed
      BY <1>1, <1>2, Zenon
  <2>2. readAt[0] = file
      BY <1>2, Zenon DEF Init
  <2>3. listOf[Full(0)] = live
      BY <1>2, Zenon DEF Init, Full
  <2> QED BY <2>1, <2>2, <2>3, Zenon
<1>5. ListOk(0)
  <2>1. \A t \in live : t.cycle = 0 /\ t.fp \in file.tasks \ failed
      BY <1>1, Zenon
  <2>2. \A f \in file.tasks \ failed : \E t \in live : t.fp = f
    <3>1. TAKE f \in file.tasks \ failed
    <3>2. [cycle |-> 0, fp |-> f] \in live
        BY <1>1, Zenon
    <3> QED BY <3>2, Zenon
  <2>3. {t.fp : t \in live} = file.tasks \ failed
      BY <2>1, <2>2, Zenon
  <2>4. \A t, u \in live : t.fp = u.fp => t = u
    <3>1. \A t \in live : t = [cycle |-> 0, fp |-> t.fp]
        BY <1>1
    <3> QED BY <3>1, Zenon
  <2>5. file \in Configs
      BY Zenon DEF Init
  <2> QED BY <1>4, <2>1, <2>3, <2>4, <2>5 DEF ListOk, Sound
<1>6. CommittedInv
  <2>1. mgr.errors = <<"errors", 0>> /\ mgr.config = <<"config", 0>> /\ allocCap = file.buffer /\ cycle = 0
      BY Zenon DEF Init
  <2>2. Base \in 0 .. cycle
      BY <1>3, <2>1
  <2> QED BY <1>3, <1>4, <1>5, <2>1, <2>2, Zenon DEF CommittedInv
<1>7. QuietInv
    BY <1>3, <1>4, Zenon DEF QuietInv, Init, Objects, Full
<1>8. ~Planned /\ ~Building /\ ~BuildFailed /\ ~Built /\ ~Reclaiming
    BY <1>3, Zenon DEF Planned, Building, BuildFailed, Built, Reclaiming
<1> QED BY <1>3, <1>6, <1>7, <1>8, Zenon
        DEF HInv, StageInv, LoadingInv, BuildFailedInv, BuiltInv, ReclaimingInv

(* Every step of every thread preserves the invariant. *)
LEMMA NextHeap == IInv /\ IInv' /\ HInv /\ [Next]_vars => HInv'
<1> SUFFICES ASSUME IInv, IInv', HInv, [Next]_vars PROVE HInv'
    OBVIOUS
<1>1. CASE mainPc = "exited"
    BY <1>1, ExitedStill, Zenon
<1>2. CASE mainPc # "exited"
  <2>1. CASE \/ \E c \in Configs \cup {Bad} : WriteConfig(c)
             \/ SignalReload \/ Quit
             \/ \E t \in Task : Capture(t)
             \/ OutputStep
             \/ UNCHANGED vars
      BY <1>2, <2>1, QuietSteps, Zenon
  <2>2. CASE MainCycle
      BY <2>2, MainCycleHeap, Zenon
  <2>3. CASE MainStep
      BY <1>2, <2>3, QuietSteps, HandleSurvivorsHeap, HandleNewTasksHeap, HandleReclaimedHeap,
         DestroyHeap, Zenon DEF MainStep
  <2>4. CASE ReloadStep
    <3>1. CASE ReloadRecv \/ ReclaimStart \/ WaitRunning \/ WaitUnanswered \/ WaitAnswered \/ WaitStopped
        BY <1>2, <3>1, QuietSteps, Zenon
    <3>2. CASE ReloadExit \/ Plan \/ PlanFails \/ Reclaim
        BY <3>2, ReloadExitHeap, PlanHeap, PlanFailsHeap, ReclaimHeap, Zenon
    <3>3. CASE \E failed \in SUBSET Fp : Build(failed)
        BY <3>3, BuildHeap, Zenon
    <3>4. CASE \E done \in SUBSET Fp : BuildFails(done)
        BY <3>4, BuildFailsHeap
    <3> QED BY <2>4, <3>1, <3>2, <3>3, <3>4, Zenon DEF ReloadStep
  <2>5. CASE Terminated
      BY <1>2, <2>5, Zenon DEF Terminated
  <2> QED BY <2>1, <2>2, <2>3, <2>4, <2>5, Zenon DEF Next
<1> QED BY <1>1, <1>2, Zenon

(* The invariant of the heap, for every set of configurations and every    *)
(* number of reloads.                                                      *)
THEOREM ReloadHeap == Spec => []HInv
<1>1. IInv /\ IInv' /\ HInv /\ [Next]_vars => HInv'
    BY NextHeap, Zenon
<1>2. Spec => []IInv
    BY ReloadInvariant, Zenon
<1>3. Init => HInv
    BY InitHeap, Zenon
<1> QED BY <1>1, <1>2, <1>3, PTL DEF Spec

(* Outside a reload the invariant is what Committed says. *)
LEMMA CommittedFromHeap == IInv /\ HInv => Committed
<1> SUFFICES ASSUME IInv, HInv, phase = "idle", mainPc # "exited" PROVE Committed
    BY Zenon DEF Committed
<1>1. CommittedInv /\ QuietInv /\ Quiet
    BY Zenon DEF HInv, StageInv, Quiet
<1>2. mgr.tasks = Full(Base) /\ heap = Objects(Base) /\ live = listOf[Full(Base)]
    BY <1>1, Zenon DEF QuietInv
<1>3. mgr.errors = <<"errors", Base>> /\ mgr.config = <<"config", Base>> /\ ListOk(Base)
    BY <1>1, Zenon DEF CommittedInv
<1>4. Polled = listOf[Full(Base)] /\ live = Polled
    BY <1>2, Zenon DEF Polled
<1>5. heap = {mgr.tasks, mgr.errors, mgr.config} /\ mgr.tasks[2] = Base /\ mgr.errors[2] = Base
    BY <1>2, <1>3 DEF Objects, Full
<1>6. /\ {t.fp : t \in Polled} = readAt[Base].tasks \ failedOf[Base]
      /\ \A t, u \in Polled : t.fp = u.fp => t = u
    BY <1>3, <1>4, Zenon DEF ListOk, Sound
<1>7. Pipeline /\ readAt[Base].buffer > 0 => allocCap = readAt[Base].buffer
    BY <1>1, Zenon DEF CommittedInv
<1> QED BY <1>4, <1>5, <1>6, <1>7, Zenon DEF Committed, Base

(* Between reloads task_mgr holds exactly one configuration: an aborted    *)
(* reload (a file that does not parse, memory that runs out in the plan or *)
(* in the build) leaves the old one complete, a finished one leaves the    *)
(* new one and nothing of the old.                                         *)
THEOREM ReloadCommitted == Spec => []Committed
BY CommittedFromHeap, ReloadInvariant, ReloadHeap, PTL

(* Main polls no task that a newer open task's configuration drops, at any *)
(* point of a reload and of a shutdown in its middle.                      *)
THEOREM ReloadOldStopsFirst == Spec => []OldStopsFirst
<1>1. IInv /\ HInv => OldStopsFirst
    BY StageOrder, Zenon DEF HInv, ExitInv
<1> QED BY <1>1, ReloadInvariant, ReloadHeap, PTL

(* At exit every captured message was sent, and a process that was not     *)
(* reloading has closed every task and freed every list.                   *)
THEOREM ReloadExitDrained == Spec => []ExitDrained
<1>1. IInv /\ HInv => ExitDrained
    BY Zenon DEF IInv, ThreadInv, MessageInv, OutputInv, HInv, ExitInv, ExitDrained
<1> QED BY <1>1, ReloadInvariant, ReloadHeap, PTL

(* In every stage what the threads point to is allocated. *)
LEMMA PointersFromHeap == IInv /\ HInv => PointersValid
<1> SUFFICES ASSUME IInv, HInv PROVE PointersValid
    OBVIOUS
<1>1. CASE mainPc = "exited"
  <2>1. rlPc = "exited" /\ mainPc # "handle"
      BY <1>1, Zenon DEF IInv, ThreadInv
  <2> QED BY <1>1, <2>1, Zenon DEF PointersValid
<1>2. CASE mainPc # "exited"
  <2>1. StageInv
      BY <1>2, Zenon DEF HInv
  <2> USE DEF StageInv
  <2>2. mgr.errors \in Objects(Base) /\ mgr.config \in Objects(Base)
      BY <2>1, Zenon DEF CommittedInv, Objects
  <2>3. Polled \subseteq live
      BY <1>2, Zenon DEF IInv, ProtocolInv, PolledInv
  <2> DEFINE Mgr == {mgr.tasks, mgr.errors, mgr.config} \subseteq heap
             Ctx == rlPc # "exited" => {ctx.current, ctx.old, ctx.config} \subseteq heap \cup {NULL}
             Main == MainTurn => Held(reloadTx) \subseteq heap \cup {NULL}
             Reload == ReloadTurn => Held(mainTx) \subseteq heap \cup {NULL}
             Free == rlPc = "free" => Unused \subseteq live \ Polled
  <2> SUFFICES Mgr /\ Ctx /\ Main /\ Reload /\ Free
      BY <1>2, <2>3, Zenon DEF PointersValid, MainTurn, ReloadTurn
  <2>4. CASE Quiet
    <3>1. /\ mgr.tasks = Full(Base) /\ heap = Objects(Base) /\ ctx = NoCtx
          /\ MainTurn => Held(reloadTx) = {NULL}
          /\ ReloadTurn => mainTx = Msg("PLAN", Full(Base), NULL, NULL)
        BY <2>1, <2>4, Zenon DEF QuietInv
    <3>2. Full(Base) \in heap
        BY <3>1, Zenon DEF Objects
    <3>3. Mgr
        BY <2>2, <3>1, <3>2, Zenon
    <3>4. Ctx
        BY <3>1, Zenon DEF NoCtx
    <3>5. Main /\ Reload
        BY <3>1, <3>2 DEF Held, Msg
    <3>6. rlPc # "free"
        BY <2>4, Zenon DEF Quiet, IInv, ProtocolInv, TurnInv, ReloadTurn
    <3> QED BY <3>3, <3>4, <3>5, <3>6, Zenon
  <2>5. CASE Planned \/ Building
    <3>1. /\ mgr.tasks \in {Full(Base), Survivors(cycle)}
          /\ heap = Objects(Base) \cup {Survivors(cycle)} \cup LoadedConfig
          /\ ctx = [current |-> Full(Base), old |-> NULL, config |-> <<"config", cycle>>]
          /\ Planned => reloadTx = Msg("SURVIVORS", Survivors(cycle), NULL, NULL)
          /\ Building => mainTx = Msg("BUILD", Full(Base), NULL, NULL)
        BY <2>1, <2>5, Zenon DEF LoadingInv
    <3>2. Full(Base) \in heap /\ Survivors(cycle) \in heap
        BY <3>1, Zenon DEF Objects
    <3>3. Mgr
        BY <2>2, <3>1, <3>2, Zenon
    <3>4. Ctx
        BY <3>1, <3>2, Zenon DEF LoadedConfig
    <3>5. (Planned => ~ReloadTurn) /\ (Building => ~MainTurn)
        BY Zenon DEF Planned, Building, IInv, ProtocolInv, TurnInv
    <3>6. Main
        BY <2>5, <3>1, <3>2, <3>5 DEF Held, Msg
    <3>7. Reload
        BY <2>5, <3>1, <3>2, <3>5 DEF Held, Msg
    <3>8. rlPc # "free"
        BY <2>5, Zenon DEF Planned, Building, IInv, ProtocolInv, TurnInv
    <3> QED BY <3>3, <3>4, <3>6, <3>7, <3>8, Zenon
  <2>6. CASE BuildFailed \/ Built
    <3>1. /\ mgr.tasks = Survivors(cycle) /\ Survivors(cycle) \in heap /\ Full(Base) \in heap
          /\ Objects(Base) \subseteq heap
        BY <2>1, <2>6, Zenon DEF BuildFailedInv, BuiltInv, Objects
    <3>2. Mgr
        BY <2>2, <3>1, Zenon
    <3>3. Ctx
      <4>1. CASE BuildFailed
        <5>1. ctx = NoCtx
            BY <2>1, <4>1, Zenon DEF BuildFailedInv
        <5>2. ctx.current = NULL /\ ctx.old = NULL /\ ctx.config = NULL
            BY <5>1, Zenon DEF NoCtx
        <5> QED BY <5>2, Zenon
      <4>2. CASE Built
        <5>1. ctx = [current |-> Full(Base), old |-> Full(Base), config |-> NULL]
            BY <2>1, <4>2, Zenon DEF BuiltInv
        <5>2. ctx.current = Full(Base) /\ ctx.old = Full(Base) /\ ctx.config = NULL
            BY <5>1, Zenon
        <5> QED BY <3>1, <5>2, Zenon
      <4> QED BY <2>6, <4>1, <4>2, Zenon
    <3>4. ~ReloadTurn /\ rlPc # "free"
        BY <2>6, Zenon DEF BuildFailed, Built, IInv, ProtocolInv, TurnInv, ReloadTurn
    <3>5. Main
      <4>1. CASE BuildFailed
        <5>1. reloadTx = Msg("ERROR", Full(Base), NULL, NULL)
            BY <2>1, <4>1, Zenon DEF BuildFailedInv
        <5>2. Held(reloadTx) = {Full(Base), NULL}
            BY <5>1, Zenon DEF Held, Msg
        <5> QED BY <3>1, <5>2, Zenon
      <4>2. CASE Built
        <5>1. /\ reloadTx = Msg("NEW_TASKS", Full(cycle), <<"errors", cycle>>, <<"config", cycle>>)
              /\ Objects(cycle) \subseteq heap
            BY <2>1, <4>2, Zenon DEF BuiltInv
        <5> QED BY <5>1, Zenon DEF Held, Msg, Objects
      <4> QED BY <2>6, <4>1, <4>2, Zenon
    <3> QED BY <3>2, <3>3, <3>4, <3>5, Zenon
  <2>7. CASE Reclaiming
    <3>1. PICK o \in Cycles :
             /\ Base = cycle /\ mgr.tasks = Full(cycle)
             /\ heap = Objects(o) \cup Objects(cycle)
             /\ live = listOf[Full(o)] \cup listOf[Full(cycle)]
             /\ ListOk(o) /\ Succeeds(o, cycle)
             /\ ctx = [current |-> Full(o), old |-> Full(o), config |-> NULL]
             /\ mainTx = Msg("RECLAIM", Full(cycle), <<"errors", o>>, <<"config", o>>)
        BY <2>1, <2>7, Zenon DEF ReclaimingInv
    <3>2. Full(o) \in heap /\ Full(cycle) \in heap
        BY <3>1, Zenon DEF Objects
    <3>3. Mgr
        BY <2>2, <3>1, <3>2, Zenon
    <3>4. Ctx
        BY <3>1, <3>2, Zenon
    <3>5. ~MainTurn
        BY <2>7, Zenon DEF Reclaiming, IInv, ProtocolInv, TurnInv
    <3>6. Reload
        BY <3>1, <3>2, Zenon DEF Held, Msg, Objects
    <3>7. Free
      <4>1. Unused = {t \in listOf[Full(o)] : t.fp \notin Fingerprints(Full(cycle))}
          BY <3>1, Zenon DEF Unused, Msg
      <4>2. \A t \in Polled : t.fp # NoFp
          BY <2>7, Zenon DEF Reclaiming, IInv, ProtocolInv, ReclaimRequested
      <4>3. Polled = listOf[Full(cycle)]
          BY <3>1, Zenon DEF Polled
      <4> QED BY <3>1, <4>1, <4>2, <4>3, Zenon DEF Fingerprints
    <3> QED BY <3>3, <3>4, <3>5, <3>6, <3>7, Zenon
  <2>8. Quiet \/ Planned \/ Building \/ BuildFailed \/ Built \/ Reclaiming
      BY Zenon DEF IInv, TypeOK, MainTypeOK, ProtocolInv, TurnInv, Quiet, Planned, Building, BuildFailed,
             Built, Reclaiming
  <2> QED BY <2>4, <2>5, <2>6, <2>7, <2>8, Zenon
<1> QED BY <1>1, <1>2, Zenon

(* No thread follows a pointer to freed memory: not the task manager, not  *)
(* the reload context and not the handler of a message that is under way,  *)
(* whichever step of a reload failed and whenever the process is stopped.  *)
THEOREM ReloadPointersValid == Spec => []PointersValid
BY PointersFromHeap, ReloadInvariant, ReloadHeap, PTL

(* A step of main that no longer polls a task has read a configuration     *)
(* that drops it.                                                          *)
LEMMA PolledContinues ==
    ASSUME IInv, HInv, [Next]_vars
    PROVE  \A t \in Polled \ Polled' : t.fp = NoFp \/ t.fp \notin readAt[cycle].tasks
<1> USE DEF notOutput, notReload, notMain, envVars, heapVars, mainVars, boxVars, reloadVars, outVars
<1>1. CASE HandleSurvivors /\ reloadTx.type = "SURVIVORS"
  <2>1. StageInv /\ MainTurn /\ phase = "survivors"
      BY <1>1, Zenon DEF HandleSurvivors, HInv, MainTurn
  <2>2. Planned /\ LoadingInv
      BY <1>1, <2>1, Zenon DEF Planned, StageInv
  <2>3. /\ mgr.tasks = Full(Base) /\ listOf[Survivors(cycle)] = Kept(Base, cycle)
        /\ reloadTx.tasks = Survivors(cycle)
      BY <2>2 DEF LoadingInv, Msg
  <2>4. Polled = listOf[Full(Base)] /\ Polled' = Kept(Base, cycle)
    <3>1. mgr' = [mgr EXCEPT !.tasks = reloadTx.tasks] /\ listOf' = listOf
        BY <1>1, Zenon DEF HandleSurvivors
    <3>2. mgr'.tasks = Survivors(cycle)
        BY <2>3, <3>1, Zenon DEF IInv, TypeOK, MainTypeOK
    <3> QED BY <2>3, <3>1, <3>2, Zenon DEF Polled
  <2> QED BY <2>4, Zenon DEF Kept, FindTasks
<1>2. CASE HandleNewTasks
  <2>1. StageInv /\ MainTurn /\ phase = "newTasks" /\ listOf' = listOf
      BY <1>2, Zenon DEF HandleNewTasks, HInv, MainTurn
  <2>2. reloadTx.type \in {"NEW_TASKS", "ERROR"}
      BY <2>1, Zenon DEF IInv, ProtocolInv, TurnInv
  <2>3. CASE reloadTx.type = "NEW_TASKS"
    <3>1. Built /\ BuiltInv
        BY <2>1, <2>3, Zenon DEF Built, StageInv
    <3>2. /\ mgr.tasks = Survivors(cycle) /\ reloadTx.tasks = Full(cycle)
          /\ listOf[Survivors(cycle)] = Kept(Base, cycle)
          /\ Kept(Base, cycle) \subseteq listOf[Full(cycle)]
      <4>1. reloadTx = Msg("NEW_TASKS", Full(cycle), <<"errors", cycle>>, <<"config", cycle>>)
          BY <3>1, Zenon DEF BuiltInv
      <4>2. reloadTx.tasks = Full(cycle)
          BY <4>1, Zenon DEF Msg
      <4>3. /\ mgr.tasks = Survivors(cycle) /\ listOf[Survivors(cycle)] = Kept(Base, cycle)
            /\ Succeeds(Base, cycle)
          BY <3>1, Zenon DEF BuiltInv
      <4> QED BY <4>2, <4>3, Zenon DEF Succeeds, BuiltFrom
    <3>3. mgr'.tasks = Full(cycle)
        BY <1>2, <2>3, <3>2 DEF HandleNewTasks
    <3> QED BY <2>1, <3>2, <3>3, Zenon DEF Polled
  <2>4. CASE reloadTx.type = "ERROR"
    <3>1. BuildFailed /\ BuildFailedInv /\ CommittedInv
        BY <2>1, <2>4, Zenon DEF BuildFailed, StageInv
    <3>2. /\ mgr.tasks = Survivors(cycle) /\ reloadTx.tasks = Full(Base)
          /\ listOf[Survivors(cycle)] \subseteq listOf[Full(Base)]
      <4>1. /\ mgr.tasks = Survivors(cycle) /\ reloadTx = Msg("ERROR", Full(Base), NULL, NULL)
            /\ listOf[Survivors(cycle)] \subseteq listOf[Full(Base)]
          BY <3>1, Zenon DEF BuildFailedInv
      <4>2. reloadTx.tasks = Full(Base)
          BY <4>1, Zenon DEF Msg
      <4> QED BY <4>1, <4>2, Zenon
    <3>3. mgr'.tasks = Full(Base) \/ mgr' = mgr
        BY <1>2, <2>4, <3>2, Zenon DEF HandleNewTasks, IInv, TypeOK, MainTypeOK
    <3> QED BY <2>1, <3>2, <3>3, Zenon DEF Polled
  <2> QED BY <2>2, <2>3, <2>4, Zenon
<1>3. CASE /\ ~(HandleSurvivors /\ reloadTx.type = "SURVIVORS") /\ ~HandleNewTasks
  <2>1. Polled' = Polled
    <3>1. CASE UNCHANGED <<listOf, mgr>>
        BY <3>1, Zenon DEF Polled
    <3>2. CASE Plan
      <4>1. UNCHANGED mgr /\ mgr.tasks = Full(Base) /\ Base < cycle /\ Base \in Cycles
        <5>1. mainPc # "exited" /\ phase = "survivors" /\ ReloadTurn
            BY <3>2, Zenon DEF Plan, IInv, ThreadInv, ProtocolInv, TurnInv, ReloadTurn
        <5> QED BY <3>2, <5>1, ReloadAssumption
                DEF Plan, HInv, StageInv, QuietInv, Quiet, CommittedInv, IInv, TypeOK, EnvTypeOK, Cycles
      <4>2. listOf'[Full(Base)] = listOf[Full(Base)]
          BY <3>2, <4>1, Zenon DEF Plan, IInv, TypeOK, HeapTypeOK, Full, ListPtr
      <4> QED BY <4>1, <4>2, Zenon DEF Polled
    <3>3. CASE \E failed \in SUBSET Fp : Build(failed)
      <4>1. UNCHANGED mgr /\ mgr.tasks = Survivors(cycle) /\ cycle \in Cycles
        <5>1. rlPc = "build" /\ UNCHANGED mgr
            BY <3>3, Zenon DEF Build
        <5> QED BY <5>1, AtBuild, Zenon
      <4>2. listOf'[Survivors(cycle)] = listOf[Survivors(cycle)]
          BY <3>3, <4>1, Zenon DEF Build, IInv, TypeOK, HeapTypeOK, Survivors, ListPtr
      <4> QED BY <4>1, <4>2, Zenon DEF Polled
    <3>4. CASE \/ \E c \in Configs \cup {Bad} : WriteConfig(c)
               \/ SignalReload \/ Quit \/ \E t \in Task : Capture(t)
               \/ Terminated \/ UNCHANGED vars
        BY <3>1, <3>4, Zenon DEF WriteConfig, SignalReload, Quit, Capture, Terminated, vars
    <3>5. CASE MainCycle \/ MainStep
        BY <1>3, <3>1, <3>5, Zenon DEF MainCycle, MainStep, AllocMsg, PushMsg, HandleSurvivors,
                  HandleReclaimed, StopReload, JoinReload, Destroy
    <3>6. CASE ReloadStep
        BY <3>1, <3>2, <3>3, <3>6, Zenon
           DEF ReloadStep, ReloadExit, ReloadRecv, PlanFails, BuildFails, ReclaimStart,
               WaitRunning, WaitUnanswered, WaitAnswered, WaitStopped, Reclaim
    <3>7. CASE OutputStep
        BY <3>1, <3>7, Zenon DEF OutputStep, OutLoop, OutRequest, OutPop, OutSend, OutEmpty, OutDrained,
                  OutRespond, OutExit
    <3> QED BY <3>4, <3>5, <3>6, <3>7, Zenon DEF Next
  <2> QED BY <2>1, Zenon
<1> QED BY <1>1, <1>2, <1>3, Zenon

(* A task that the new configuration keeps is polled in every state of the *)
(* reload: in the surviving subset while the new tasks are opened, and in  *)
(* the restored list when they cannot be.                                  *)
THEOREM ReloadReuseContinues == Spec => ReuseContinues
<1>1. IInv /\ HInv /\ [Next]_vars =>
         [\A t \in Polled \ Polled' : t.fp = NoFp \/ t.fp \notin readAt[cycle].tasks]_vars
    BY PolledContinues, Zenon
<1> QED BY <1>1, ReloadInvariant, ReloadHeap, PTL DEF Spec, ReuseContinues
=============================================================================
