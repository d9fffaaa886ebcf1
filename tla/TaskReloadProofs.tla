-------------------------- MODULE TaskReloadProofs --------------------------
(***************************************************************************)
(* The inductive invariant of TaskReload, for any set of fingerprints and  *)
(* configurations, any ring and buffer size and any number of reloads: it  *)
(* holds initially, every step of the output thread, of main and of the    *)
(* reload thread preserves it, and what follows from it for every          *)
(* behaviour.                                                              *)
(***************************************************************************)
EXTENDS TaskReload, TLAPS

(* Whose turn it is. *)
ReloadTurn == reloadBox \/ rlPc \notin {"recv", "exited"}
MainTurn == mainBox \/ mainPc = "handle"

(* The two threads take turns, and the messages fit the phase. *)
TurnInv ==
    /\ reloadBox => rlPc \in {"recv", "exited"}
    /\ mainBox => mainPc # "handle"
    /\ ReloadTurn => ~MainTurn
    /\ phase = "idle" <=> ~ReloadTurn /\ ~MainTurn
    /\ phase = "survivors" => mainTx.type = "PLAN"
    /\ phase = "newTasks" => mainTx.type = "BUILD"
    /\ phase = "reclaim" => mainTx.type = "RECLAIM"
    /\ rlPc = "plan" => phase = "survivors"
    /\ rlPc = "build" => phase = "newTasks"
    /\ rlPc \in {"reclaim", "wait", "check", "free"} => phase = "reclaim"
    /\ MainTurn /\ phase = "survivors" => reloadTx.type \in {"SURVIVORS", "ERROR"}
    /\ MainTurn /\ phase = "newTasks" => reloadTx.type \in {"NEW_TASKS", "ERROR"}
    /\ MainTurn /\ phase = "reclaim" => reloadTx.type = "RECLAIMED"

(* No open task is younger than the current cycle, and none is as young    *)
(* before the cycle's new tasks are opened.                                *)
AgeInv ==
    /\ \A t \in live : t.cycle <= cycle
    /\ phase = "survivors" => \A t \in live : t.cycle < cycle
    /\ phase = "newTasks" /\ ReloadTurn => \A t \in live : t.cycle < cycle

(* The lists that the messages and the reload context point to. *)
OwnList(list) ==
    list \in ListPtr /\ (mainPc # "exited" => listOf[list] \subseteq live)

PlanRequested ==
    phase = "survivors" =>
        /\ mgr.tasks[2] < cycle
        /\ ReloadTurn => mainTx.tasks = mgr.tasks

SurvivorsReported ==
    phase = "survivors" /\ MainTurn /\ reloadTx.type = "SURVIVORS" =>
        /\ reloadTx.tasks = <<"survivors", cycle>>
        /\ listOf[reloadTx.tasks] \subseteq listOf[mgr.tasks]
        /\ ctx.current = mgr.tasks
        /\ ctx.config = <<"config", cycle>>
        /\ readAt[cycle] \in Configs /\ NoFp \notin readAt[cycle].tasks

BuildRequested ==
    phase = "newTasks" /\ ReloadTurn =>
        /\ mainTx.tasks = ctx.current
        /\ OwnList(ctx.current) /\ ctx.current[2] < cycle
        /\ mgr.tasks = <<"survivors", cycle>>
        /\ ctx.config = <<"config", cycle>>
        /\ readAt[cycle] \in Configs /\ NoFp \notin readAt[cycle].tasks

NewTasksReported ==
    phase = "newTasks" /\ MainTurn =>
        /\ mgr.tasks = <<"survivors", cycle>>
        /\ OwnList(reloadTx.tasks)
        /\ reloadTx.type = "ERROR" => reloadTx.tasks[2] < cycle
        /\ reloadTx.type = "NEW_TASKS" =>
              /\ reloadTx.tasks = <<"full", cycle>>
              /\ reloadTx.errors = <<"errors", cycle>>
              /\ reloadTx.config = <<"config", cycle>>
              /\ readAt[cycle] \in Configs
              /\ \A t \in listOf[reloadTx.tasks] : t.fp # NoFp
              /\ ctx.old \in ListPtr

ReclaimRequested ==
    phase = "reclaim" /\ ReloadTurn =>
        /\ mainTx.tasks = mgr.tasks
        /\ ctx.old \in ListPtr
        /\ \A t \in Polled : t.fp # NoFp

PolledInv ==
    /\ mgr.tasks[2] <= cycle
    /\ mainPc # "exited" => Polled \subseteq live

(* The reload thread waits for the ring to be drained. *)
Waiting == rlPc \in {"wait", "check"}

(* Which threads run while main is where it is, and what it holds. *)
ThreadInv ==
    /\ mainMsg # NULL <=> mainPc \in {"alloc", "push"}
    /\ mainPc \in {"joinReload", "joinOutput", "exited"} <=> ~rlRunning
    /\ mainPc \in {"joinOutput", "exited"} => rlPc = "exited"
    /\ rlPc = "exited" => ~rlRunning
    /\ Pipeline => (outRunning <=> mainPc \notin {"joinOutput", "exited"})
    /\ Pipeline /\ outPc \in {"lastDrain", "exited"} => ~outRunning
    /\ mainPc = "exited" => outPc = "exited"
    /\ drainSkipped => ~rlRunning
    /\ Waiting => Pipeline

(* What is popped and sent. *)
Popped == IF outMsg # NULL THEN 1 ELSE 0

OutputInv ==
    /\ outMsg # NULL => outPc \in {"pop", "drain", "lastDrain"}
    /\ outPc \in {"drain", "lastDrain"} => Popped <= drainLeft
    /\ outPc = "drain" => drainLeft <= Len(ring) + Popped
    /\ outPc = "lastDrain" => drainLeft = Len(ring) + Popped
    /\ outPc = "exited" => ring = <<>> /\ outMsg = NULL
    /\ ~Pipeline => outPc = "exited" /\ mainMsg = NULL

(* The drain's hand-shake, unless a shutdown interrupted it: while the     *)
(* reload thread waits, the drain is requested, about to be answered, or   *)
(* answered; otherwise nothing of it is left.                              *)
HandshakeInv ==
    drainSkipped \/
      /\ outPc = "drain" => drainRequest
      /\ drainRequest => Waiting /\ ~drainResponse /\ outPc # "respond"
      /\ outPc = "respond" => Waiting /\ ~drainResponse
      /\ drainResponse => Waiting
      /\ Waiting => drainRequest \/ outPc = "respond" \/ drainResponse

(* Messages that a drain under way will not pop are not for tasks that     *)
(* will be destroyed; once it is done, none is.                            *)
DrainInv ==
    drainSkipped \/
      /\ phase = "reclaim" /\ ReloadTurn =>
            (mainMsg # NULL => mainMsg \notin Unused)
      /\ outPc = "drain" =>
            \A i \in 1 .. Len(ring) : i > drainLeft - Popped => ring[i] \notin Unused
      /\ outPc = "respond" \/ drainResponse \/ rlPc = "free" =>
            /\ \A i \in 1 .. Len(ring) : ring[i] \notin Unused
            /\ outMsg # NULL => outMsg \notin Unused

(* The reload protocol's part of the invariant ... *)
ProtocolInv ==
    /\ TurnInv
    /\ AgeInv
    /\ PlanRequested
    /\ SurvivorsReported
    /\ BuildRequested
    /\ NewTasksReported
    /\ ReclaimRequested
    /\ PolledInv

(* ... the part of the messages and the output thread ... *)
MessageInv ==
    /\ OutputInv
    /\ HandshakeInv
    /\ DrainInv
    /\ MessageTasksLive

(* ... and all of it. *)
IInv ==
    /\ TypeOK
    /\ ProtocolInv
    /\ ThreadInv
    /\ MessageInv
-----------------------------------------------------------------------------
USE DEF Waiting

(* A step keeps the types of what it does not assign. *)
LEMMA TypeFrame ==
    /\ EnvTypeOK /\ UNCHANGED <<file, deploys, written, reloadSignal, quitSignal, cycle>>
         => EnvTypeOK'
    /\ HeapTypeOK /\ UNCHANGED heapVars => HeapTypeOK'
    /\ MainTypeOK /\ UNCHANGED <<mainPc, mainMsg, phase, mgr, allocCap>> => MainTypeOK'
    /\ BoxTypeOK /\ UNCHANGED boxVars => BoxTypeOK'
    /\ ReloadTypeOK /\ UNCHANGED <<reloadVars, rlRunning>> => ReloadTypeOK'
    /\ OutTypeOK /\ UNCHANGED <<outVars, outRunning, drainRequest, ring>> => OutTypeOK'
BY DEF EnvTypeOK, HeapTypeOK, MainTypeOK, BoxTypeOK, ReloadTypeOK, OutTypeOK,
       heapVars, boxVars, reloadVars, outVars

(* A step that assigns none of the protocol's variables keeps its part; it *)
(* may move the main thread as long as that is not to or from a handler.   *)
LEMMA ProtocolFrame ==
    ASSUME ProtocolInv,
           mainPc' = "handle" <=> mainPc = "handle",
           mainPc' # "exited" => mainPc # "exited",
           UNCHANGED <<live, listOf, readAt, phase, cycle, mgr, mainTx, mainBox, reloadTx,
                       reloadBox, rlPc, ctx>>
    PROVE  ProtocolInv'
<1>1. ReloadTurn' = ReloadTurn /\ MainTurn' = MainTurn
    BY Zenon DEF ReloadTurn, MainTurn
<1>2. Polled' = Polled
    BY Zenon DEF Polled
<1> QED
    BY <1>1, <1>2
       DEF ProtocolInv, TurnInv, AgeInv, PlanRequested, SurvivorsReported, BuildRequested,
           NewTasksReported, ReclaimRequested, PolledInv, OwnList

(* A step of the reload thread that only moves it within its turn.         *)
LEMMA TurnFrame ==
    ASSUME ProtocolInv, TurnInv', ReloadTurn' = ReloadTurn, MainTurn' = MainTurn,
           UNCHANGED <<live, listOf, readAt, mainPc, phase, cycle, mgr, mainTx, reloadTx,
                       ctx>>
    PROVE  ProtocolInv'
<1>1. Polled' = Polled
    BY Zenon DEF Polled
<1> QED
    BY <1>1, Zenon
       DEF ProtocolInv, AgeInv, PlanRequested, SurvivorsReported, BuildRequested,
           NewTasksReported, ReclaimRequested, PolledInv, OwnList

(* The tasks about to be destroyed stay the same when the lists do.        *)
LEMMA UnusedFrame ==
    ASSUME UNCHANGED <<listOf, mainTx, ctx>>
    PROVE  Unused' = Unused
BY Zenon DEF Unused, Fingerprints

(* What main polls is not about to be destroyed. *)
LEMMA PolledNotUnused ==
    ASSUME ReclaimRequested, phase = "reclaim", ReloadTurn
    PROVE  Polled \cap Unused = {}
BY Zenon DEF ReclaimRequested, Polled, Unused, Fingerprints

(* Outside the reload thread's wait and reclaim no drain is under way.     *)
LEMMA NoDrain ==
    ASSUME HandshakeInv, ~Waiting
    PROVE  drainSkipped \/ (outPc \notin {"drain", "respond"} /\ ~drainResponse)
BY Zenon DEF HandshakeInv
-----------------------------------------------------------------------------
(* Output thread. *)

(* Popping takes the oldest message and shifts the others. *)
LEMMA PopFacts ==
    ASSUME ring \in Seq(Task), ring # <<>>
    PROVE  /\ Head(ring) = ring[1] /\ Head(ring) \in Task
           /\ Tail(ring) \in Seq(Task)
           /\ Len(ring) \in Nat \ {0}
           /\ Len(Tail(ring)) = Len(ring) - 1
           /\ \A i \in 1 .. Len(Tail(ring)) : Tail(ring)[i] = ring[i + 1]
OBVIOUS

(* The invariant survives reading output_thread_running. *)
LEMMA OutLoopInv ==
    ASSUME IInv, OutLoop
    PROVE  IInv'
<1> USE DEF notOutput, envVars, heapVars, mainVars, boxVars, reloadVars
<1>1. Unused' = Unused
    BY UnusedFrame, Zenon
       DEF OutLoop
<1>2. OutTypeOK'
    BY DEF IInv, TypeOK, OutTypeOK, OutLoop
<1>3. TypeOK'
    BY <1>2, TypeFrame, Zenon
       DEF IInv, TypeOK, outVars, OutLoop
<1>4. ProtocolInv'
    BY ProtocolFrame, Zenon
       DEF IInv, OutLoop
<1>5. ThreadInv'
    BY Zenon DEF IInv, ThreadInv, OutLoop
<1>6. OutputInv'
    BY DEF IInv, TypeOK, OutTypeOK, ThreadInv, MessageInv, OutputInv, Popped,
           OutLoop
<1>7. HandshakeInv'
    BY Zenon DEF IInv, MessageInv, HandshakeInv, OutLoop
<1>8. DrainInv'
    BY <1>1, Zenon
       DEF IInv, TypeOK, OutTypeOK, MessageInv, OutputInv, HandshakeInv, DrainInv,
           ReloadTurn, Popped, OutLoop
<1>9. MessageTasksLive'
    BY Zenon DEF IInv, TypeOK, OutTypeOK, MessageInv, MessageTasksLive, MessageTasks,
           OutLoop
<1> QED BY <1>3, <1>4, <1>5, <1>6, <1>7, <1>8, <1>9, Zenon
       DEF IInv, MessageInv

(* The invariant survives reading the drain request. *)
LEMMA OutRequestInv ==
    ASSUME IInv, OutRequest
    PROVE  IInv'
<1> USE DEF notOutput, envVars, heapVars, mainVars, boxVars, reloadVars
<1>1. Unused' = Unused
    BY UnusedFrame, Zenon
       DEF OutRequest
<1>2. OutTypeOK'
    BY DEF IInv, TypeOK, OutTypeOK, OutRequest
<1>3. TypeOK'
    BY <1>2, TypeFrame, Zenon
       DEF IInv, TypeOK, outVars, OutRequest
<1>4. ProtocolInv'
    BY ProtocolFrame, Zenon
       DEF IInv, OutRequest
<1>5. ThreadInv'
    BY Zenon DEF IInv, ThreadInv, OutRequest
<1>6. OutputInv'
    BY DEF IInv, TypeOK, OutTypeOK, ThreadInv, MessageInv, OutputInv, Popped,
           OutRequest
<1>7. HandshakeInv'
    BY Zenon DEF IInv, MessageInv, HandshakeInv, OutRequest
<1>8. DrainInv'
    BY <1>1
       DEF IInv, TypeOK, OutTypeOK, MessageInv, OutputInv, HandshakeInv, DrainInv,
           ReloadTurn, Popped, OutRequest
<1>9. MessageTasksLive'
    BY Zenon DEF IInv, TypeOK, OutTypeOK, MessageInv, MessageTasksLive, MessageTasks,
           OutRequest
<1> QED BY <1>3, <1>4, <1>5, <1>6, <1>7, <1>8, <1>9
       DEF IInv, MessageInv

(* The invariant survives spsc_ring_pop by the output thread. *)
LEMMA OutPopInv ==
    ASSUME IInv, OutPop
    PROVE  IInv'
<1> USE DEF notOutput, envVars, heapVars, mainVars, boxVars, reloadVars
<1>1. /\ ring \in Seq(Task) /\ ring # <<>>
      /\ ring' = Tail(ring) /\ outMsg' = ring[1] /\ outMsg' # NULL
      /\ ring[1] \in Task /\ Tail(ring) \in Seq(Task)
      /\ Len(ring) \in Nat \ {0} /\ Len(ring') = Len(ring) - 1
      /\ \A i \in 1 .. Len(ring') : ring'[i] = ring[i + 1]
    BY PopFacts, ReloadAssumption, Zenon
       DEF IInv, TypeOK, OutTypeOK, OutPop
<1>2. /\ outPc \in {"pop", "drain", "lastDrain"} /\ (outPc # "pop" => drainLeft > 0)
      /\ Popped = 0 /\ Popped' = 1
      /\ UNCHANGED <<outPc, drainLeft, mainMsg, drainSkipped, phase, reloadBox, rlPc,
                     drainResponse>>
    BY <1>1, Zenon
       DEF Popped, OutPop
<1>3. Unused' = Unused
    BY UnusedFrame, Zenon
       DEF OutPop
<1>4. OutTypeOK'
    BY <1>1, ReloadAssumption
       DEF IInv, TypeOK, OutTypeOK, OutPop
<1>5. TypeOK'
    BY <1>4, TypeFrame, Zenon
       DEF IInv, TypeOK, outVars, OutPop
<1>6. ProtocolInv'
    BY ProtocolFrame, Zenon
       DEF IInv, OutPop
<1>7. ThreadInv'
    BY Zenon DEF IInv, ThreadInv, OutPop
<1>8. OutputInv'
  <2>1. OutputInv /\ drainLeft \in Nat
      BY DEF IInv, TypeOK, OutTypeOK, MessageInv
  <2>2. Pipeline
      BY <1>2, <2>1, ReloadAssumption, Zenon DEF OutputInv
  <2>3. outPc = "drain" => drainLeft <= Len(ring)
      BY <1>1, <1>2, <2>1 DEF OutputInv
  <2>4. Len(ring) \in Nat /\ Len(ring') = Len(ring) - 1 /\ outMsg' # NULL
      BY <1>1, Zenon
  <2>5. outPc = "lastDrain" => drainLeft = Len(ring) + Popped
      BY <2>1, Zenon DEF OutputInv
  <2>6. outPc = "lastDrain" => drainLeft = Len(ring)
      BY <1>2, <2>4, <2>5
  <2> QED BY <1>2, <2>1, <2>2, <2>3, <2>4, <2>6 DEF OutputInv
<1>9. HandshakeInv'
    BY Zenon DEF IInv, MessageInv, HandshakeInv, OutPop
<1>10. DrainInv'
    BY <1>1, <1>2, <1>3, ReloadAssumption
       DEF IInv, TypeOK, OutTypeOK, MessageInv, DrainInv, ReloadTurn
<1>11. MessageTasksLive'
    BY <1>1
       DEF IInv, MessageInv, MessageTasksLive, MessageTasks, OutPop
<1> QED BY <1>5, <1>6, <1>7, <1>8, <1>9, <1>10, <1>11
       DEF IInv, MessageInv

(* The invariant survives sending and freeing the popped message. *)
LEMMA OutSendInv ==
    ASSUME IInv, OutSend
    PROVE  IInv'
<1> USE DEF notOutput, envVars, heapVars, mainVars, boxVars, reloadVars
<1>1. Unused' = Unused
    BY UnusedFrame, Zenon
       DEF OutSend
<1>2. OutTypeOK'
    BY ReloadAssumption
       DEF IInv, TypeOK, OutTypeOK, MessageInv, OutputInv, Popped, OutSend
<1>3. TypeOK'
    BY <1>2, TypeFrame, Zenon
       DEF IInv, TypeOK, outVars, OutSend
<1>4. ProtocolInv'
    BY ProtocolFrame, Zenon
       DEF IInv, OutSend
<1>5. ThreadInv'
    BY Zenon DEF IInv, ThreadInv, OutSend
<1>6. OutputInv'
    BY DEF IInv, TypeOK, OutTypeOK, ThreadInv, MessageInv, OutputInv, Popped,
           OutSend
<1>7. HandshakeInv'
    BY Zenon DEF IInv, MessageInv, HandshakeInv, OutSend
<1>8. DrainInv'
    BY <1>1
       DEF IInv, TypeOK, OutTypeOK, MessageInv, OutputInv, HandshakeInv, DrainInv,
           ReloadTurn, Popped, OutSend
<1>9. MessageTasksLive'
    BY Zenon DEF IInv, TypeOK, OutTypeOK, MessageInv, MessageTasksLive, MessageTasks,
           OutSend
<1> QED BY <1>3, <1>4, <1>5, <1>6, <1>7, <1>8, <1>9
       DEF IInv, MessageInv

(* The invariant survives finding the ring empty. *)
LEMMA OutEmptyInv ==
    ASSUME IInv, OutEmpty
    PROVE  IInv'
<1> USE DEF notOutput, envVars, heapVars, mainVars, boxVars, reloadVars
<1>1. Unused' = Unused
    BY UnusedFrame, Zenon
       DEF OutEmpty
<1>2. OutTypeOK'
    BY Zenon DEF IInv, TypeOK, OutTypeOK, OutEmpty
<1>3. TypeOK'
    BY <1>2, TypeFrame, Zenon
       DEF IInv, TypeOK, outVars, OutEmpty
<1>4. ProtocolInv'
    BY ProtocolFrame, Zenon
       DEF IInv, OutEmpty
<1>5. ThreadInv'
    BY Zenon DEF IInv, ThreadInv, OutEmpty
<1>6. OutputInv'
    BY Zenon DEF IInv, TypeOK, OutTypeOK, ThreadInv, MessageInv, OutputInv, Popped,
           OutEmpty
<1>7. HandshakeInv'
    BY Zenon DEF IInv, MessageInv, HandshakeInv, OutEmpty
<1>8. DrainInv'
    BY <1>1, Zenon
       DEF IInv, TypeOK, OutTypeOK, MessageInv, OutputInv, HandshakeInv, DrainInv,
           ReloadTurn, Popped, OutEmpty
<1>9. MessageTasksLive'
    BY Zenon DEF IInv, TypeOK, OutTypeOK, MessageInv, MessageTasksLive, MessageTasks,
           OutEmpty
<1> QED BY <1>3, <1>4, <1>5, <1>6, <1>7, <1>8, <1>9
       DEF IInv, MessageInv

(* The invariant survives clearing the drain request after the drain. *)
LEMMA OutDrainedInv ==
    ASSUME IInv, OutDrained
    PROVE  IInv'
<1> USE DEF notOutput, envVars, heapVars, mainVars, boxVars, reloadVars
<1>1. Unused' = Unused
    BY UnusedFrame, Zenon
       DEF OutDrained
<1>2. OutTypeOK'
    BY Zenon DEF IInv, TypeOK, OutTypeOK, OutDrained
<1>3. TypeOK'
    BY <1>2, TypeFrame, Zenon
       DEF IInv, TypeOK, outVars, OutDrained
<1>4. ProtocolInv'
    BY ProtocolFrame, Zenon
       DEF IInv, OutDrained
<1>5. ThreadInv'
    BY Zenon DEF IInv, ThreadInv, OutDrained
<1>6. OutputInv'
    BY Zenon DEF IInv, TypeOK, OutTypeOK, ThreadInv, MessageInv, OutputInv, Popped,
           OutDrained
<1>7. HandshakeInv'
    BY Zenon DEF IInv, MessageInv, HandshakeInv, OutDrained
<1>8. DrainInv'
    BY SMTT(30), <1>1
       DEF IInv, TypeOK, OutTypeOK, MessageInv, OutputInv, HandshakeInv, DrainInv,
           ReloadTurn, Popped, OutDrained
<1>9. MessageTasksLive'
    BY Zenon DEF IInv, TypeOK, OutTypeOK, MessageInv, MessageTasksLive, MessageTasks,
           OutDrained
<1> QED BY <1>3, <1>4, <1>5, <1>6, <1>7, <1>8, <1>9
       DEF IInv, MessageInv

(* The invariant survives answering the drain request. *)
LEMMA OutRespondInv ==
    ASSUME IInv, OutRespond
    PROVE  IInv'
<1> USE DEF notOutput, envVars, heapVars, mainVars, boxVars, reloadVars
<1>1. Unused' = Unused
    BY UnusedFrame, Zenon
       DEF OutRespond
<1>2. OutTypeOK'
    BY Zenon DEF IInv, TypeOK, OutTypeOK, OutRespond
<1>3. TypeOK'
    BY <1>2, TypeFrame, Zenon
       DEF IInv, TypeOK, outVars, OutRespond
<1>4. ProtocolInv'
    BY ProtocolFrame, Zenon
       DEF IInv, OutRespond
<1>5. ThreadInv'
    BY Zenon DEF IInv, ThreadInv, OutRespond
<1>6. OutputInv'
    BY Zenon DEF IInv, TypeOK, OutTypeOK, ThreadInv, MessageInv, OutputInv, Popped,
           OutRespond
<1>7. HandshakeInv'
    BY Zenon DEF IInv, MessageInv, HandshakeInv, OutRespond
<1>8. DrainInv'
    BY <1>1, Zenon
       DEF IInv, TypeOK, OutTypeOK, MessageInv, OutputInv, HandshakeInv, DrainInv,
           ReloadTurn, Popped, OutRespond
<1>9. MessageTasksLive'
    BY Zenon DEF IInv, TypeOK, OutTypeOK, MessageInv, MessageTasksLive, MessageTasks,
           OutRespond
<1> QED BY <1>3, <1>4, <1>5, <1>6, <1>7, <1>8, <1>9
       DEF IInv, MessageInv

(* The invariant survives the end of the output thread after its last drain. *)
LEMMA OutExitInv ==
    ASSUME IInv, OutExit
    PROVE  IInv'
<1> USE DEF notOutput, envVars, heapVars, mainVars, boxVars, reloadVars
<1>1. Unused' = Unused
    BY UnusedFrame, Zenon
       DEF OutExit
<1>2. OutTypeOK'
    BY Zenon DEF IInv, TypeOK, OutTypeOK, OutExit
<1>3. TypeOK'
    BY <1>2, TypeFrame, Zenon
       DEF IInv, TypeOK, outVars, OutExit
<1>4. ProtocolInv'
    BY ProtocolFrame, Zenon
       DEF IInv, OutExit
<1>5. ThreadInv'
    BY Zenon DEF IInv, ThreadInv, OutExit
<1>6. OutputInv'
    BY DEF IInv, TypeOK, OutTypeOK, ThreadInv, MessageInv, OutputInv, Popped,
           OutExit
<1>7. HandshakeInv'
    BY Zenon DEF IInv, MessageInv, HandshakeInv, OutExit
<1>8. DrainInv'
    BY <1>1, Zenon
       DEF IInv, TypeOK, OutTypeOK, MessageInv, OutputInv, HandshakeInv, DrainInv,
           ReloadTurn, Popped, OutExit
<1>9. MessageTasksLive'
    BY Zenon DEF IInv, TypeOK, OutTypeOK, MessageInv, MessageTasksLive, MessageTasks,
           OutExit
<1> QED BY <1>3, <1>4, <1>5, <1>6, <1>7, <1>8, <1>9
       DEF IInv, MessageInv
-----------------------------------------------------------------------------
(* Start-up: task_manager_new establishes the invariant. *)
LEMMA InitInv == Init => IInv
<1> SUFFICES ASSUME Init PROVE IInv
    OBVIOUS
<1>1. /\ file \in Configs /\ file.tasks \subseteq AnyFp /\ file.buffer \in Nat
      /\ 0 \in Cycles /\ Cycles \subseteq Int
    BY ReloadAssumption DEF Init, ConfigType, Cycles
<1>2. PICK failed \in SUBSET file.tasks :
          /\ failedOf = [c \in Cycles |-> IF c = 0 THEN failed ELSE {}]
          /\ live = [cycle : {0}, fp : file.tasks \ failed]
    BY Zenon DEF Init
<1>3. \A t \in live : t \in Task /\ t.cycle = 0
    BY <1>1, <1>2, Zenon DEF Task
<1>4. /\ <<"full", 0>> \in ListPtr
      /\ {<<"full", 0>>, <<"errors", 0>>, <<"config", 0>>} \subseteq Object
    BY <1>1 DEF ListPtr, Object
<1>5. EnvTypeOK
  <2>1. (IF reloadSignal THEN 1 ELSE 0) = 0 /\ (IF written THEN 1 ELSE 0) = 0
      BY Zenon DEF Init
  <2>2. deploys = 0 /\ cycle = 0 /\ 0 \in 0 .. MaxDeploys
      BY ReloadAssumption DEF Init
  <2>3. cycle + (IF reloadSignal THEN 1 ELSE 0) + (IF written THEN 1 ELSE 0) <= deploys
      BY <2>1, <2>2
  <2> QED BY <1>1, <2>2, <2>3, Zenon DEF Init, EnvTypeOK
<1>6. HeapTypeOK
  <2>1. listOf \in [ListPtr -> SUBSET Task]
      BY <1>3, Zenon DEF Init
  <2>2. failedOf \in [Cycles -> SUBSET AnyFp]
      BY <1>1, <1>2, Zenon
  <2>3. readAt \in [Cycles -> Configs \cup {Bad}]
      BY <1>1, Zenon DEF Init
  <2> QED BY <1>3, <1>4, <2>1, <2>2, <2>3, Zenon DEF Init, HeapTypeOK
<1>7. MainTypeOK /\ BoxTypeOK
    BY <1>1, <1>4, Zenon DEF Init, MainTypeOK, BoxTypeOK, Msg, Message, Ptr
<1>8. ReloadTypeOK
    BY Zenon DEF Init, ReloadTypeOK, NoCtx, Ptr
<1>9. OutTypeOK
  <2>1. 0 \in 0 .. RingCap /\ ring \in Seq(Task) /\ Len(ring) <= RingCap
      BY ReloadAssumption DEF Init
  <2>2. outPc \in {"loop", "exited"} /\ outRunning \in BOOLEAN
      BY ReloadAssumption, Zenon DEF Init
  <2> QED BY <2>1, <2>2, Zenon DEF Init, OutTypeOK
<1>10. Polled = live /\ mgr.tasks[2] = 0 /\ cycle = 0 /\ phase = "idle"
       /\ ~ReloadTurn /\ ~MainTurn
    BY <1>4, Zenon DEF Init, Polled, ReloadTurn, MainTurn
<1>11. ProtocolInv
  <2>1. TurnInv
      BY <1>10, Zenon DEF Init, TurnInv
  <2>2. AgeInv /\ PolledInv
      BY SMTT(30), <1>3, <1>10 DEF AgeInv, PolledInv
  <2> QED BY <1>10, <2>1, <2>2, Zenon
          DEF ProtocolInv, PlanRequested, SurvivorsReported, BuildRequested,
              NewTasksReported, ReclaimRequested
<1>12. ThreadInv
    BY ReloadAssumption, Zenon DEF Init, ThreadInv
<1>13. OutputInv /\ HandshakeInv
    BY ReloadAssumption, Zenon DEF Init, OutputInv, HandshakeInv, Popped
<1>14. DrainInv
    BY <1>10, ReloadAssumption, Zenon DEF Init, DrainInv
<1>15. MessageTasksLive
  <2>1. MessageTasks = {}
      BY SMTT(30) DEF Init, MessageTasks
  <2> QED BY <2>1, Zenon DEF MessageTasksLive
<1> QED BY <1>5, <1>6, <1>7, <1>8, <1>9, <1>11, <1>12, <1>13, <1>14, <1>15, Zenon
        DEF IInv, TypeOK, MessageInv
-----------------------------------------------------------------------------
(* Surroundings. *)

(* The invariant survives a new configuration file. *)
LEMMA WriteConfigInv ==
    ASSUME IInv, NEW c \in Configs \cup {Bad}, WriteConfig(c)
    PROVE  IInv'
<1> USE DEF heapVars, mainVars, boxVars, reloadVars, outVars
<1>1. Unused' = Unused
    BY UnusedFrame, Zenon
       DEF WriteConfig
<1>2. EnvTypeOK'
    BY ReloadAssumption
       DEF IInv, TypeOK, EnvTypeOK, Cycles, WriteConfig
<1>3. TypeOK'
    BY <1>2, TypeFrame, Zenon
       DEF IInv, TypeOK, WriteConfig
<1>4. ProtocolInv'
    BY ProtocolFrame, Zenon
       DEF IInv, WriteConfig
<1>5. ThreadInv'
    BY Zenon DEF IInv, ThreadInv, WriteConfig
<1>6. OutputInv'
    BY Zenon DEF IInv, TypeOK, OutTypeOK, ThreadInv, MessageInv, OutputInv, Popped,
           WriteConfig
<1>7. HandshakeInv'
    BY Zenon DEF IInv, MessageInv, HandshakeInv, WriteConfig
<1>8. DrainInv'
    BY <1>1, Zenon
       DEF IInv, TypeOK, OutTypeOK, MessageInv, OutputInv, HandshakeInv, DrainInv,
           ReloadTurn, Popped, WriteConfig
<1>9. MessageTasksLive'
    BY Zenon DEF IInv, TypeOK, OutTypeOK, MessageInv, MessageTasksLive, MessageTasks,
           WriteConfig
<1> QED BY <1>3, <1>4, <1>5, <1>6, <1>7, <1>8, <1>9, Zenon
       DEF IInv, MessageInv

(* The invariant survives task_manager_reload_signal. *)
LEMMA SignalReloadInv ==
    ASSUME IInv, SignalReload
    PROVE  IInv'
<1> USE DEF heapVars, mainVars, boxVars, reloadVars, outVars
<1>1. cycle \in Int /\ deploys \in Int /\ cycle + 1 <= deploys
  <2> DEFINE r == IF reloadSignal THEN 1 ELSE 0
             w == IF written THEN 1 ELSE 0
  <2>1. cycle \in Int /\ deploys \in Int /\ cycle + r + w <= deploys
      BY ReloadAssumption DEF IInv, TypeOK, EnvTypeOK, Cycles
  <2>2. r \in {0, 1} /\ w = 1
      BY Zenon DEF SignalReload
  <2> HIDE DEF r, w
  <2> QED BY <2>1, <2>2
<1>2. Unused' = Unused
    BY UnusedFrame, Zenon
       DEF SignalReload
<1>3. EnvTypeOK'
  <2>1. EnvTypeOK /\ written' = FALSE /\ reloadSignal' = TRUE
        /\ UNCHANGED <<file, deploys, quitSignal, cycle>>
      BY Zenon DEF IInv, TypeOK, SignalReload
  <2>2. (IF reloadSignal' THEN 1 ELSE 0) = 1 /\ (IF written' THEN 1 ELSE 0) = 0
      BY <2>1, Zenon
  <2>3. cycle + 1 + 0 <= deploys
      BY <1>1
  <2> QED BY <2>1, <2>2, <2>3, Zenon DEF EnvTypeOK
<1>4. TypeOK'
    BY <1>3, TypeFrame, Zenon
       DEF IInv, TypeOK, SignalReload
<1>5. ProtocolInv'
    BY ProtocolFrame, Zenon
       DEF IInv, SignalReload
<1>6. ThreadInv'
    BY Zenon DEF IInv, ThreadInv, SignalReload
<1>7. OutputInv'
    BY Zenon DEF IInv, TypeOK, OutTypeOK, ThreadInv, MessageInv, OutputInv, Popped,
           SignalReload
<1>8. HandshakeInv'
    BY Zenon DEF IInv, MessageInv, HandshakeInv, SignalReload
<1>9. DrainInv'
    BY <1>2, Zenon
       DEF IInv, TypeOK, OutTypeOK, MessageInv, OutputInv, HandshakeInv, DrainInv,
           ReloadTurn, Popped, SignalReload
<1>10. MessageTasksLive'
    BY Zenon DEF IInv, TypeOK, OutTypeOK, MessageInv, MessageTasksLive, MessageTasks,
           SignalReload
<1> QED BY <1>4, <1>5, <1>6, <1>7, <1>8, <1>9, <1>10
       DEF IInv, MessageInv

(* The invariant survives SIGINT or SIGTERM. *)
LEMMA QuitInv ==
    ASSUME IInv, Quit
    PROVE  IInv'
<1> USE DEF heapVars, mainVars, boxVars, reloadVars, outVars
<1>1. Unused' = Unused
    BY UnusedFrame, Zenon
       DEF Quit
<1>2. EnvTypeOK'
    BY Zenon DEF IInv, TypeOK, EnvTypeOK, Quit
<1>3. TypeOK'
    BY <1>2, TypeFrame, Zenon
       DEF IInv, TypeOK, Quit
<1>4. ProtocolInv'
    BY ProtocolFrame, Zenon
       DEF IInv, Quit
<1>5. ThreadInv'
    BY Zenon DEF IInv, ThreadInv, Quit
<1>6. OutputInv'
    BY Zenon DEF IInv, TypeOK, OutTypeOK, ThreadInv, MessageInv, OutputInv, Popped, Quit
<1>7. HandshakeInv'
    BY Zenon DEF IInv, MessageInv, HandshakeInv, Quit
<1>8. DrainInv'
    BY <1>1, Zenon
       DEF IInv, TypeOK, OutTypeOK, MessageInv, OutputInv, HandshakeInv, DrainInv,
           ReloadTurn, Popped, Quit
<1>9. MessageTasksLive'
    BY Zenon DEF IInv, TypeOK, OutTypeOK, MessageInv, MessageTasksLive, MessageTasks,
           Quit
<1> QED BY <1>3, <1>4, <1>5, <1>6, <1>7, <1>8, <1>9
       DEF IInv, MessageInv

-----------------------------------------------------------------------------
(* Main thread: capturing and shutdown. *)

(* The invariant survives a packet of a polled capture task. *)
LEMMA CaptureInv ==
    ASSUME IInv, NEW t \in Task, Capture(t)
    PROVE  IInv'
<1> USE DEF envVars, heapVars, boxVars, reloadVars, outVars
<1>1. /\ t \in Polled /\ t \in Task /\ t # NULL /\ t \in live
      /\ mainMsg' = t /\ mainPc = "loop" /\ mainPc' = "alloc"
    BY ReloadAssumption, Zenon
       DEF IInv, TypeOK, HeapTypeOK, MainTypeOK, Polled, ProtocolInv, PolledInv,
           Capture
<1>2. Unused' = Unused
    BY UnusedFrame, Zenon
       DEF Capture
<1>3. MainTypeOK'
    BY <1>1, Zenon
       DEF IInv, TypeOK, MainTypeOK, Capture
<1>4. TypeOK'
    BY <1>3, TypeFrame, Zenon
       DEF IInv, TypeOK, Capture
<1>5. ProtocolInv'
    BY ProtocolFrame, <1>1, Zenon
       DEF IInv, Capture
<1>6. ThreadInv'
    BY <1>1, ReloadAssumption, Zenon
       DEF IInv, TypeOK, MainTypeOK, ThreadInv, Capture
<1>7. OutputInv'
    BY <1>1, ReloadAssumption, Zenon
       DEF IInv, MessageInv, OutputInv, Popped, Capture
<1>8. HandshakeInv'
    BY Zenon DEF IInv, MessageInv, HandshakeInv, Capture
<1>9. DrainInv'
    BY <1>1, <1>2, PolledNotUnused, Zenon
       DEF IInv, ProtocolInv, MessageInv, DrainInv, ReloadTurn, Popped, Capture
<1>10. MessageTasksLive'
    BY <1>1, Zenon
       DEF IInv, MessageInv, MessageTasksLive, MessageTasks, Capture
<1> QED BY <1>4, <1>5, <1>6, <1>7, <1>8, <1>9, <1>10, Zenon
       DEF IInv, MessageInv

(* The invariant survives simple_alloc_packet finding room. *)
LEMMA AllocMsgInv ==
    ASSUME IInv, AllocMsg
    PROVE  IInv'
<1> USE DEF notMain, envVars, reloadVars, outVars
<1>1. Unused' = Unused
    BY UnusedFrame, Zenon
       DEF AllocMsg
<1>2. MainTypeOK'
    BY Zenon DEF IInv, TypeOK, MainTypeOK, AllocMsg
<1>3. TypeOK'
    BY <1>2, TypeFrame, Zenon
       DEF IInv, TypeOK, heapVars, boxVars, AllocMsg
<1>4. ProtocolInv'
    BY ProtocolFrame, Zenon
       DEF IInv, AllocMsg
<1>5. ThreadInv'
    BY Zenon DEF IInv, ThreadInv, AllocMsg
<1>6. OutputInv'
    BY Zenon DEF IInv, TypeOK, OutTypeOK, ThreadInv, MessageInv, OutputInv, Popped,
           AllocMsg
<1>7. HandshakeInv'
    BY Zenon DEF IInv, MessageInv, HandshakeInv, AllocMsg
<1>8. DrainInv'
    BY <1>1, Zenon
       DEF IInv, TypeOK, OutTypeOK, MessageInv, OutputInv, HandshakeInv, DrainInv,
           ReloadTurn, Popped, AllocMsg
<1>9. MessageTasksLive'
    BY Zenon DEF IInv, TypeOK, OutTypeOK, MessageInv, MessageTasksLive, MessageTasks,
           AllocMsg
<1> QED BY <1>3, <1>4, <1>5, <1>6, <1>7, <1>8, <1>9
       DEF IInv, MessageInv

(* The invariant survives spsc_ring_push finding room. *)
LEMMA PushMsgInv ==
    ASSUME IInv, PushMsg
    PROVE  IInv'
<1> USE DEF envVars, heapVars, boxVars, reloadVars, outVars
<1>1. /\ mainMsg \in Task /\ ring \in Seq(Task)
      /\ ring' \in Seq(Task) /\ Len(ring) \in Nat
      /\ Len(ring') = Len(ring) + 1 /\ ring'[Len(ring) + 1] = mainMsg
      /\ \A i \in 1 .. Len(ring) : ring'[i] = ring[i]
    BY DEF IInv, TypeOK, OutTypeOK, MainTypeOK, ThreadInv, PushMsg
<1>2. /\ mainPc = "push" /\ mainPc' = "loop" /\ mainMsg' = NULL
      /\ Len(ring) < RingCap /\ Popped' = Popped
      /\ outRunning /\ Pipeline /\ outPc \notin {"lastDrain", "exited"}
      /\ UNCHANGED <<outVars, outRunning, drainRequest, live, drainSkipped, phase,
                     reloadBox, rlPc>>
    BY ReloadAssumption, Zenon
       DEF IInv, ThreadInv, MessageInv, OutputInv, Popped, PushMsg
<1>3. Unused' = Unused
    BY UnusedFrame, Zenon
       DEF PushMsg
<1>4. MainTypeOK' /\ OutTypeOK'
    BY SMTT(30), <1>1, <1>2, ReloadAssumption
       DEF IInv, TypeOK, MainTypeOK, OutTypeOK, PushMsg
<1>5. TypeOK'
    BY <1>4, TypeFrame, Zenon
       DEF IInv, TypeOK, PushMsg
<1>6. ProtocolInv'
    BY ProtocolFrame, Zenon
       DEF IInv, PushMsg
<1>7. ThreadInv'
    BY Zenon DEF IInv, ThreadInv, PushMsg
<1>8. OutputInv'
  <2>1. OutputInv /\ drainLeft \in Nat /\ Popped \in {0, 1}
      BY DEF IInv, TypeOK, OutTypeOK, MessageInv, Popped
  <2>2. Len(ring) \in Nat /\ Len(ring') = Len(ring) + 1
      BY <1>1, Zenon
  <2>3. outPc = "drain" => drainLeft' <= Len(ring') + Popped
      BY <1>2, <2>1, <2>2 DEF OutputInv
  <2> QED BY <1>2, <2>1, <2>3, Zenon DEF OutputInv
<1>9. HandshakeInv'
    BY Zenon DEF IInv, MessageInv, HandshakeInv, PushMsg
<1>10. DrainInv'
  <2> SUFFICES ASSUME ~drainSkipped PROVE DrainInv'
      BY <1>2, Zenon DEF DrainInv
  <2>1. DrainInv /\ HandshakeInv /\ TurnInv /\ mainMsg # NULL
      BY <1>2, Zenon DEF IInv, MessageInv, ProtocolInv, ThreadInv
  <2>2. rlPc \in {"wait", "check", "free"} => mainMsg \notin Unused
      BY <2>1, Zenon DEF DrainInv, TurnInv, ReloadTurn
  <2>3. outPc \in {"drain", "respond"} \/ drainResponse \/ rlPc = "free" =>
           mainMsg \notin Unused
      BY <2>1, <2>2, Zenon DEF HandshakeInv
  <2>4. \A i \in 1 .. Len(ring') :
           \/ i \in 1 .. Len(ring) /\ ring'[i] = ring[i]
           \/ ring'[i] = mainMsg
      BY <1>1
  <2> QED BY <1>2, <1>3, <2>1, <2>3, <2>4, Zenon DEF DrainInv, ReloadTurn
<1>11. MessageTasksLive'
  <2>1. live' = live /\ drainSkipped' = drainSkipped /\ outMsg' = outMsg /\ mainMsg' = NULL
      BY <1>2, Zenon
  <2>2. \A i \in 1 .. Len(ring') : ring'[i] = mainMsg \/ \E j \in 1 .. Len(ring) : ring'[i] = ring[j]
      BY <1>1
  <2>3. MessageTasks' \subseteq MessageTasks
      BY <2>1, <2>2, Zenon DEF MessageTasks
  <2> QED BY <2>1, <2>3, Zenon DEF IInv, MessageInv, MessageTasksLive
<1> QED BY <1>5, <1>6, <1>7, <1>8, <1>9, <1>10, <1>11
       DEF IInv, MessageInv
-----------------------------------------------------------------------------
(* Main thread: shutdown. *)

(* The invariant survives the stop request to the reload thread. *)
LEMMA StopReloadInv ==
    ASSUME IInv, StopReload
    PROVE  IInv'
<1> USE DEF envVars, heapVars, boxVars, reloadVars, outVars
<1>1. Unused' = Unused
    BY UnusedFrame, Zenon
       DEF StopReload
<1>2. MainTypeOK' /\ ReloadTypeOK'
    BY Zenon DEF IInv, TypeOK, MainTypeOK, ReloadTypeOK, StopReload
<1>3. TypeOK'
    BY <1>2, TypeFrame, Zenon
       DEF IInv, TypeOK, StopReload
<1>4. ProtocolInv'
    BY ProtocolFrame, Zenon
       DEF IInv, StopReload
<1>5. ThreadInv'
    BY Zenon DEF IInv, ThreadInv, StopReload
<1>6. OutputInv'
    BY Zenon DEF IInv, TypeOK, OutTypeOK, ThreadInv, MessageInv, OutputInv, Popped,
           StopReload
<1>7. HandshakeInv'
    BY Zenon DEF IInv, MessageInv, HandshakeInv, StopReload
<1>8. DrainInv'
    BY <1>1, Zenon
       DEF IInv, TypeOK, OutTypeOK, MessageInv, OutputInv, HandshakeInv, DrainInv,
           ReloadTurn, Popped, StopReload
<1>9. MessageTasksLive'
    BY Zenon DEF IInv, TypeOK, OutTypeOK, MessageInv, MessageTasksLive, MessageTasks,
           StopReload
<1> QED BY <1>3, <1>4, <1>5, <1>6, <1>7, <1>8, <1>9
       DEF IInv, MessageInv

(* The invariant survives joining the reload thread. *)
LEMMA JoinReloadInv ==
    ASSUME IInv, JoinReload
    PROVE  IInv'
<1> USE DEF envVars, heapVars, boxVars, reloadVars, outVars
<1>1. Unused' = Unused
    BY UnusedFrame, Zenon
       DEF JoinReload
<1>2. MainTypeOK' /\ OutTypeOK'
  <2>1. MainTypeOK'
      BY Zenon DEF IInv, TypeOK, MainTypeOK, JoinReload
  <2>2. OutTypeOK'
      BY Zenon DEF IInv, TypeOK, OutTypeOK, JoinReload
  <2> QED BY <2>1, <2>2, Zenon
<1>3. TypeOK'
    BY <1>2, TypeFrame, Zenon
       DEF IInv, TypeOK, JoinReload
<1>4. ProtocolInv'
    BY ProtocolFrame, Zenon
       DEF IInv, JoinReload
<1>5. ThreadInv'
    BY Zenon DEF IInv, ThreadInv, JoinReload
<1>6. OutputInv'
    BY Zenon DEF IInv, TypeOK, OutTypeOK, ThreadInv, MessageInv, OutputInv, Popped,
           JoinReload
<1>7. HandshakeInv'
    BY Zenon DEF IInv, MessageInv, HandshakeInv, JoinReload
<1>8. DrainInv'
    BY <1>1, Zenon
       DEF IInv, TypeOK, OutTypeOK, MessageInv, OutputInv, HandshakeInv, DrainInv,
           ReloadTurn, Popped, JoinReload
<1>9. MessageTasksLive'
    BY Zenon DEF IInv, TypeOK, OutTypeOK, MessageInv, MessageTasksLive, MessageTasks,
           JoinReload
<1> QED BY <1>3, <1>4, <1>5, <1>6, <1>7, <1>8, <1>9
       DEF IInv, MessageInv

(* The invariant survives task_manager_destroy. *)
LEMMA DestroyInv ==
    ASSUME IInv, Destroy
    PROVE  IInv'
<1> USE DEF envVars, boxVars, reloadVars, outVars
<1>1. Unused' = Unused
    BY UnusedFrame, Zenon
       DEF Destroy
<1>2. MainTypeOK' /\ HeapTypeOK'
    BY Zenon DEF IInv, TypeOK, MainTypeOK, HeapTypeOK, Destroy
<1>3. TypeOK'
    BY <1>2, TypeFrame, Zenon
       DEF IInv, TypeOK, heapVars, Destroy
<1>4. ProtocolInv'
  <2>1. /\ ReloadTurn' = ReloadTurn /\ MainTurn' = MainTurn /\ Polled' = Polled
        /\ mainPc' = "exited" /\ live' \subseteq live
      BY Zenon DEF Destroy, ReloadTurn, MainTurn, Polled
  <2>2. TurnInv'
      BY <2>1, Zenon DEF IInv, ProtocolInv, TurnInv, Destroy
  <2>3. AgeInv' /\ PolledInv'
      BY <2>1, Zenon DEF IInv, ProtocolInv, AgeInv, PolledInv, Destroy
  <2> QED
      BY <2>1, <2>2, <2>3, Zenon
         DEF IInv, ProtocolInv, PlanRequested, SurvivorsReported, BuildRequested,
             NewTasksReported, ReclaimRequested, OwnList, Destroy
<1>5. ThreadInv'
    BY Zenon DEF IInv, ThreadInv, Destroy
<1>6. OutputInv'
    BY Zenon DEF IInv, TypeOK, OutTypeOK, ThreadInv, MessageInv, OutputInv, Popped,
           Destroy
<1>7. HandshakeInv'
    BY Zenon DEF IInv, MessageInv, HandshakeInv, Destroy
<1>8. DrainInv'
    BY <1>1, Zenon
       DEF IInv, TypeOK, OutTypeOK, MessageInv, OutputInv, HandshakeInv, DrainInv,
           ReloadTurn, Popped, Destroy
<1>9. MessageTasksLive'
  <2>1. MessageTasks' = {}
    <3>1. mainMsg' = NULL /\ outMsg' = NULL /\ ring' = <<>>
        BY Zenon DEF IInv, ThreadInv, MessageInv, OutputInv, Destroy
    <3> QED BY <3>1 DEF MessageTasks
  <2> QED BY <2>1, Zenon DEF MessageTasksLive
<1> QED BY <1>3, <1>4, <1>5, <1>6, <1>7, <1>8, <1>9
       DEF IInv, MessageInv
-----------------------------------------------------------------------------
(* Main thread: the reload cycle. *)

(* A handler leaves the other threads' part as it is: none of them runs.   *)
LEMMA MainQuiet ==
    ASSUME IInv, ~ReloadTurn, mainPc \in {"loop", "handle"},
           mainPc' \in {"loop", "handle"}, UNCHANGED notMain
    PROVE  /\ ThreadInv' /\ OutputInv' /\ HandshakeInv' /\ DrainInv' /\ MessageTasksLive'
           /\ UNCHANGED <<live, listOf, failedOf, readAt, reloadTx, rlPc, ctx, file,
                          deploys, written, quitSignal, mainMsg>>
           /\ ReloadTypeOK' /\ OutTypeOK'
<1> USE DEF notMain, envVars, reloadVars, outVars
<1>1. rlPc \in {"recv", "exited"} /\ mainMsg = NULL /\ mainMsg' = NULL /\ rlPc' = rlPc
    BY Zenon DEF ReloadTurn, IInv, ThreadInv
<1>2. ThreadInv'
    BY <1>1, Zenon DEF IInv, ThreadInv
<1>3. OutputInv'
    BY Zenon DEF IInv, MessageInv, OutputInv, Popped
<1>4. HandshakeInv'
    BY Zenon DEF IInv, MessageInv, HandshakeInv
<1>5. DrainInv'
    BY <1>1, NoDrain, Zenon DEF IInv, MessageInv, DrainInv
<1>6. MessageTasksLive'
    BY Zenon DEF IInv, MessageInv, MessageTasksLive, MessageTasks
<1>7. ReloadTypeOK' /\ OutTypeOK'
    BY TypeFrame, Zenon DEF IInv, TypeOK
<1> QED BY <1>2, <1>3, <1>4, <1>5, <1>6, <1>7, Zenon

(* A reload ends or starts: try_start_reload with list as the polled list. *)
LEMMA StartReload ==
    ASSUME IInv, NEW list \in ListPtr, TryStartReload(list),
           list[2] <= cycle, listOf[list] \subseteq live, ~ReloadTurn,
           mgr'.tasks = list, mainBox' = FALSE, mainPc' = "loop",
           UNCHANGED <<live, listOf, readAt, reloadTx, rlPc, ctx, file, deploys, written,
                       quitSignal>>
    PROVE  /\ ProtocolInv' /\ EnvTypeOK'
           /\ mainTx' \in Message /\ reloadBox' \in BOOLEAN
           /\ phase' \in {"idle", "survivors"}
<1>1. /\ rlPc \in {"recv", "exited"} /\ reloadBox = FALSE /\ ~MainTurn'
      /\ cycle \in Int /\ deploys \in Int /\ MaxDeploys \in Int /\ deploys <= MaxDeploys
      /\ cycle >= 0 /\ list[2] \in Int /\ EnvTypeOK /\ list \in Object
      /\ \A t \in live : t.cycle \in Int /\ t.cycle <= cycle
      /\ Polled' = listOf[list] /\ mainTx \in Message
    BY ReloadAssumption
       DEF ReloadTurn, MainTurn, IInv, TypeOK, EnvTypeOK, HeapTypeOK, BoxTypeOK,
           ProtocolInv, AgeInv, Cycles, Task, ListPtr, Object, Polled
<1>2. CASE reloadSignal
  <2>1. /\ cycle' = cycle + 1 /\ reloadSignal' = FALSE /\ reloadBox' = TRUE
        /\ phase' = "survivors" /\ mainTx' = Msg("PLAN", list, NULL, NULL)
      BY <1>2, Zenon DEF TryStartReload, RequestTo
  <2>2. /\ mainTx' \in Message /\ mainTx'.type = "PLAN" /\ mainTx'.tasks = list
      BY <1>1, <2>1, Zenon DEF Msg, Message, Ptr
  <2>3. EnvTypeOK'
    <3> DEFINE w == IF written THEN 1 ELSE 0
    <3>1. cycle + 1 + w <= deploys /\ w \in {0, 1} /\ w' = w
        BY <1>1, <1>2, Zenon DEF EnvTypeOK
    <3>2. (IF reloadSignal' THEN 1 ELSE 0) = 0
        BY <2>1, Zenon
    <3> HIDE DEF w
    <3>3. cycle' \in Cycles /\ cycle' + 0 + w <= deploys
        BY <1>1, <2>1, <3>1 DEF Cycles
    <3>4. cycle' + (IF reloadSignal' THEN 1 ELSE 0) + w' <= deploys'
        BY <3>1, <3>2, <3>3, Zenon
    <3> QED BY <1>1, <2>1, <3>3, <3>4, Zenon DEF EnvTypeOK, w
  <2>4. ReloadTurn' /\ TurnInv'
      BY <1>1, <2>1, <2>2, Zenon DEF TurnInv, ReloadTurn, MainTurn
  <2>5. AgeInv' /\ PlanRequested' /\ PolledInv'
      BY <1>1, <2>1, <2>2 DEF AgeInv, PlanRequested, PolledInv
  <2>6. SurvivorsReported' /\ BuildRequested' /\ NewTasksReported' /\ ReclaimRequested'
      BY <1>1, <2>1, Zenon DEF SurvivorsReported, BuildRequested, NewTasksReported,
                        ReclaimRequested
  <2> QED BY <2>1, <2>2, <2>3, <2>4, <2>5, <2>6, Zenon DEF ProtocolInv
<1>3. CASE ~reloadSignal
  <2>1. phase' = "idle" /\ UNCHANGED <<reloadSignal, cycle, mainTx, reloadBox>>
      BY <1>3, Zenon DEF TryStartReload
  <2>2. EnvTypeOK'
      BY <1>1, <2>1, TypeFrame, Zenon
  <2>3. TurnInv' /\ AgeInv' /\ PlanRequested' /\ PolledInv'
      BY <1>1, <2>1, Zenon DEF TurnInv, ReloadTurn, MainTurn, AgeInv, PlanRequested, PolledInv
  <2>4. SurvivorsReported' /\ BuildRequested' /\ NewTasksReported' /\ ReclaimRequested'
      BY <2>1, Zenon DEF SurvivorsReported, BuildRequested, NewTasksReported, ReclaimRequested
  <2> QED BY <1>1, <2>1, <2>2, <2>3, <2>4, Zenon DEF ProtocolInv
<1> QED BY <1>2, <1>3, Zenon

(* A stuttering step. *)
LEMMA StutterInv ==
    ASSUME IInv, UNCHANGED vars
    PROVE  IInv'
<1> USE DEF vars
<1>1. TypeOK'
    BY TypeFrame, Zenon DEF IInv, TypeOK, heapVars, boxVars, reloadVars, outVars
<1>2. ProtocolInv'
    BY ProtocolFrame, Zenon DEF IInv
<1>3. Unused' = Unused
    BY UnusedFrame, Zenon
<1>4. ThreadInv' /\ OutputInv' /\ HandshakeInv'
    BY Zenon DEF IInv, MessageInv, ThreadInv, OutputInv, HandshakeInv, Popped
<1>5. DrainInv'
    BY <1>3, Zenon DEF IInv, MessageInv, DrainInv, ReloadTurn, Popped
<1>6. MessageTasksLive'
    BY Zenon DEF IInv, MessageInv, MessageTasksLive, MessageTasks
<1> QED BY <1>1, <1>2, <1>4, <1>5, <1>6, Zenon DEF IInv, MessageInv

(* The invariant survives main_mbox_recv and try_start_reload. *)
LEMMA MainCycleInv ==
    ASSUME IInv, MainCycle
    PROVE  IInv'
<1>1. CASE mainBox
  <2>1. /\ mainPc = "loop" /\ mainPc' = "handle" /\ mainBox' = FALSE
        /\ UNCHANGED <<phase, reloadSignal, cycle, mainTx, reloadBox, notMain, heap, mgr,
                       allocCap>>
      BY <1>1, Zenon DEF MainCycle
  <2>2. MainTurn /\ MainTurn' /\ ~ReloadTurn
      BY <1>1, <2>1, Zenon DEF MainTurn, IInv, ProtocolInv, TurnInv
  <2>3. /\ ThreadInv' /\ OutputInv' /\ HandshakeInv' /\ DrainInv' /\ MessageTasksLive'
        /\ ReloadTypeOK' /\ OutTypeOK'
        /\ UNCHANGED <<live, listOf, failedOf, readAt, reloadTx, rlPc, ctx, file, deploys,
                       written, quitSignal, mainMsg>>
      BY <2>1, <2>2, MainQuiet, Zenon
  <2>4. TypeOK'
      BY <2>1, <2>3, TypeFrame, Zenon DEF IInv, TypeOK, heapVars, MainTypeOK, BoxTypeOK
  <2>5. ProtocolInv'
    <3>1. ~ReloadTurn' /\ Polled' = Polled
        BY <2>1, <2>2, <2>3, Zenon DEF ReloadTurn, Polled
    <3>2. TurnInv'
        BY <2>1, <2>2, <2>3, <3>1, Zenon DEF IInv, ProtocolInv, TurnInv
    <3> QED BY <2>1, <2>2, <2>3, <3>1, <3>2, Zenon
            DEF IInv, ProtocolInv, AgeInv, PlanRequested, SurvivorsReported,
                BuildRequested, NewTasksReported, ReclaimRequested, PolledInv, OwnList
  <2> QED BY <2>3, <2>4, <2>5, Zenon DEF IInv, MessageInv
<1>2. CASE ~mainBox /\ phase = "idle"
  <2>1. /\ mainPc = "loop" /\ mainPc' = "loop" /\ mainBox' = FALSE
        /\ TryStartReload(mgr.tasks) /\ UNCHANGED <<notMain, heap, mgr, allocCap>>
      BY <1>2, Zenon DEF MainCycle, IInv, TypeOK, BoxTypeOK
  <2>2. ~ReloadTurn
      BY <1>2, Zenon DEF IInv, ProtocolInv, TurnInv
  <2>3. /\ ThreadInv' /\ OutputInv' /\ HandshakeInv' /\ DrainInv' /\ MessageTasksLive'
        /\ ReloadTypeOK' /\ OutTypeOK'
        /\ UNCHANGED <<live, listOf, failedOf, readAt, reloadTx, rlPc, ctx, file, deploys,
                       written, quitSignal, mainMsg>>
      BY <2>1, <2>2, MainQuiet, Zenon
  <2>4. mgr.tasks \in ListPtr /\ mgr.tasks[2] <= cycle /\ listOf[mgr.tasks] \subseteq live
      BY <2>1, Zenon DEF IInv, TypeOK, MainTypeOK, ProtocolInv, PolledInv, Polled
  <2>5. /\ ProtocolInv' /\ EnvTypeOK' /\ mainTx' \in Message /\ reloadBox' \in BOOLEAN
        /\ phase' \in {"idle", "survivors"}
      BY <2>1, <2>2, <2>3, <2>4, StartReload, Zenon
  <2>6. TypeOK'
      BY <2>1, <2>3, <2>5, TypeFrame, Zenon DEF IInv, TypeOK, heapVars, MainTypeOK, BoxTypeOK
  <2> QED BY <2>3, <2>5, <2>6, Zenon DEF IInv, MessageInv
<1>3. CASE ~mainBox /\ phase # "idle"
  <2>1. UNCHANGED vars
      BY <1>3, Zenon DEF MainCycle, notMain, envVars, reloadVars, outVars, vars
  <2> QED BY <2>1, StutterInv, Zenon
<1> QED BY <1>1, <1>2, <1>3, Zenon

(* What holds when a handler runs. *)
LEMMA HandlerTurn ==
    ASSUME IInv, mainPc = "handle"
    PROVE  /\ MainTurn /\ ~ReloadTurn /\ mainBox = FALSE /\ reloadBox = FALSE
           /\ mgr.tasks \in ListPtr /\ mgr.tasks[2] <= cycle
           /\ listOf[mgr.tasks] \subseteq live
BY Zenon DEF MainTurn, ReloadTurn, IInv, TypeOK, BoxTypeOK, MainTypeOK, ProtocolInv, TurnInv,
       PolledInv, Polled

(* The invariant survives main_handle_reclaimed. *)
LEMMA HandleReclaimedInv ==
    ASSUME IInv, HandleReclaimed
    PROVE  IInv'
<1>1. /\ mainPc = "handle" /\ mainPc' = "loop" /\ TryStartReload(mgr.tasks)
      /\ UNCHANGED <<notMain, heap, mgr, allocCap, mainBox>>
    BY Zenon DEF HandleReclaimed
<1>2. /\ ThreadInv' /\ OutputInv' /\ HandshakeInv' /\ DrainInv' /\ MessageTasksLive'
      /\ ReloadTypeOK' /\ OutTypeOK'
      /\ UNCHANGED <<live, listOf, failedOf, readAt, reloadTx, rlPc, ctx, file, deploys,
                     written, quitSignal, mainMsg>>
    BY <1>1, HandlerTurn, MainQuiet, Zenon
<1>3. /\ ProtocolInv' /\ EnvTypeOK' /\ mainTx' \in Message /\ reloadBox' \in BOOLEAN
      /\ phase' \in {"idle", "survivors"}
    BY <1>1, <1>2, HandlerTurn, StartReload, Zenon
<1>4. TypeOK'
    BY <1>1, <1>2, <1>3, TypeFrame, Zenon DEF IInv, TypeOK, heapVars, MainTypeOK, BoxTypeOK
<1> QED BY <1>2, <1>3, <1>4 DEF IInv, MessageInv

(* The invariant survives main_handle_survivors. *)
LEMMA HandleSurvivorsInv ==
    ASSUME IInv, HandleSurvivors
    PROVE  IInv'
<1>1. /\ mainPc = "handle" /\ mainPc' = "loop" /\ phase = "survivors"
      /\ UNCHANGED <<notMain, heap, allocCap, mainBox>>
    BY Zenon DEF HandleSurvivors
<1>2. /\ ThreadInv' /\ OutputInv' /\ HandshakeInv' /\ DrainInv' /\ MessageTasksLive'
      /\ ReloadTypeOK' /\ OutTypeOK'
      /\ UNCHANGED <<live, listOf, failedOf, readAt, reloadTx, rlPc, ctx, file, deploys,
                     written, quitSignal, mainMsg>>
    BY <1>1, HandlerTurn, MainQuiet, Zenon
<1>3. CASE reloadTx.type = "SURVIVORS"
  <2>1. /\ mgr' = [mgr EXCEPT !.tasks = reloadTx.tasks] /\ reloadBox' = TRUE
        /\ mainTx' = Msg("BUILD", mgr.tasks, NULL, NULL) /\ phase' = "newTasks"
        /\ UNCHANGED <<reloadSignal, cycle>>
      BY <1>3, Zenon DEF HandleSurvivors, RequestTo
  <2>2. /\ mgr.tasks \in ListPtr /\ mgr.tasks \in Ptr /\ cycle \in Cycles
        /\ mgr \in [tasks : ListPtr, errors : Object, config : Object]
      BY Zenon DEF IInv, TypeOK, MainTypeOK, EnvTypeOK, ListPtr, Object, Ptr
  <2>3. /\ mainTx' \in Message /\ mainTx'.type = "BUILD" /\ mainTx'.tasks = mgr.tasks
      BY <2>1, <2>2, Zenon DEF Msg, Message, Ptr
  <2>4. /\ SurvivorsReported /\ MainTurn /\ PlanRequested /\ AgeInv /\ cycle \in Int
    <3>1. cycle \in Int
        BY <2>2, ReloadAssumption DEF Cycles
    <3>2. MainTurn
        BY <1>1, HandlerTurn, Zenon
    <3> QED BY <3>1, <3>2, Zenon DEF IInv, ProtocolInv
  <2>5. /\ reloadTx.tasks = <<"survivors", cycle>> /\ reloadTx.tasks \in ListPtr
        /\ listOf[reloadTx.tasks] \subseteq live /\ reloadTx.tasks[2] = cycle
      BY SMTT(30), <1>1, <1>3, <2>2, <2>4, HandlerTurn DEF SurvivorsReported, ListPtr
  <2>6. /\ mgr' \in [tasks : ListPtr, errors : Object, config : Object]
        /\ mgr'.tasks = reloadTx.tasks /\ Polled' = listOf[reloadTx.tasks]
      BY <1>2, <2>1, <2>2, <2>5, Zenon DEF Polled
  <2>7. TypeOK'
      BY <1>1, <1>2, <2>1, <2>3, <2>6, TypeFrame, Zenon
         DEF IInv, TypeOK, heapVars, MainTypeOK, BoxTypeOK
  <2>8. ReloadTurn' /\ ~MainTurn' /\ TurnInv'
      BY <1>1, <1>2, <2>1, <2>3, HandlerTurn, Zenon DEF TurnInv, ReloadTurn, MainTurn
  <2>9. AgeInv' /\ PolledInv'
      BY <1>1, <1>2, <2>1, <2>4, <2>5, <2>6 DEF AgeInv, PolledInv
  <2>10. BuildRequested'
      BY <1>1, <1>2, <1>3, <2>1, <2>2, <2>3, <2>4, <2>5, <2>6, HandlerTurn, Zenon
         DEF BuildRequested, SurvivorsReported, PlanRequested, OwnList
  <2>11. PlanRequested' /\ SurvivorsReported' /\ NewTasksReported' /\ ReclaimRequested'
      BY <2>1, <2>8, Zenon DEF PlanRequested, SurvivorsReported, NewTasksReported,
                        ReclaimRequested
  <2> QED BY <1>2, <2>7, <2>8, <2>9, <2>10, <2>11, Zenon DEF IInv, MessageInv, ProtocolInv
<1>4. CASE reloadTx.type # "SURVIVORS"
  <2>1. TryStartReload(mgr.tasks) /\ UNCHANGED mgr
      BY <1>4, Zenon DEF HandleSurvivors
  <2>2. /\ ProtocolInv' /\ EnvTypeOK' /\ mainTx' \in Message /\ reloadBox' \in BOOLEAN
        /\ phase' \in {"idle", "survivors"}
      BY <1>1, <1>2, <2>1, HandlerTurn, StartReload, Zenon
  <2>3. TypeOK'
      BY <1>1, <1>2, <2>1, <2>2, TypeFrame, Zenon
         DEF IInv, TypeOK, heapVars, MainTypeOK, BoxTypeOK
  <2> QED BY <1>2, <2>2, <2>3 DEF IInv, MessageInv
<1> QED BY <1>3, <1>4, Zenon

(* The invariant survives main_handle_new_tasks, committing or restoring. *)
LEMMA HandleNewTasksInv ==
    ASSUME IInv, HandleNewTasks
    PROVE  IInv'
<1>1. /\ mainPc = "handle" /\ mainPc' = "loop" /\ phase = "newTasks"
      /\ UNCHANGED <<notMain, mainBox>>
    BY Zenon DEF HandleNewTasks
<1>2. /\ ThreadInv' /\ OutputInv' /\ HandshakeInv' /\ DrainInv' /\ MessageTasksLive'
      /\ ReloadTypeOK' /\ OutTypeOK'
      /\ UNCHANGED <<live, listOf, failedOf, readAt, reloadTx, rlPc, ctx, file, deploys,
                     written, quitSignal, mainMsg>>
    BY <1>1, HandlerTurn, MainQuiet, Zenon
<1>3. /\ mgr.tasks \in ListPtr /\ mgr.tasks \in Ptr /\ cycle \in Cycles /\ cycle \in Int
      /\ mgr \in [tasks : ListPtr, errors : Object, config : Object]
      /\ heap \subseteq Object /\ allocCap \in Nat /\ MainTurn
  <2>1. MainTurn
      BY <1>1, HandlerTurn, Zenon
  <2>2. /\ mgr \in [tasks : ListPtr, errors : Object, config : Object]
        /\ heap \subseteq Object /\ allocCap \in Nat /\ cycle \in Cycles
      BY Zenon DEF IInv, TypeOK, MainTypeOK, HeapTypeOK, EnvTypeOK
  <2>3. cycle \in Int
      BY <2>2, ReloadAssumption DEF Cycles
  <2> QED BY <2>1, <2>2, <2>3, Zenon DEF ListPtr, Object, Ptr
<1>4. NewTasksReported /\ AgeInv /\ reloadTx.type \in {"NEW_TASKS", "ERROR"}
    BY <1>1, <1>3, Zenon DEF IInv, ProtocolInv, TurnInv
<1>5. /\ reloadTx.tasks \in ListPtr /\ listOf[reloadTx.tasks] \subseteq live
      /\ reloadTx.tasks \in Object /\ reloadTx.tasks # NULL
    BY <1>1, <1>3, <1>4, ReloadAssumption, Zenon
       DEF NewTasksReported, OwnList, ListPtr, Object
<1>6. CASE reloadTx.type = "NEW_TASKS"
  <2>1. /\ heap' = heap \ {mgr.tasks} /\ reloadBox' = TRUE /\ phase' = "reclaim"
        /\ mgr' = [tasks |-> reloadTx.tasks, errors |-> reloadTx.errors,
                   config |-> reloadTx.config]
        /\ allocCap' = ResizeTo(readAt[reloadTx.config[2]])
        /\ mainTx' = Msg("RECLAIM", reloadTx.tasks, mgr.errors, mgr.config)
        /\ UNCHANGED <<reloadSignal, cycle>>
      BY <1>6, Zenon DEF HandleNewTasks, RequestTo
  <2>2. /\ reloadTx.tasks = <<"full", cycle>> /\ reloadTx.errors = <<"errors", cycle>>
        /\ reloadTx.config = <<"config", cycle>> /\ readAt[cycle] \in Configs
        /\ \A t \in listOf[reloadTx.tasks] : t.fp # NoFp
        /\ ctx.old \in ListPtr
      BY <1>1, <1>3, <1>4, <1>6, Zenon DEF NewTasksReported
  <2>3. reloadTx.errors \in Object /\ reloadTx.config \in Object
      BY <1>3, <2>2 DEF Object
  <2>4. allocCap' \in Nat
      BY SMTT(30), <1>3, <2>1, <2>2, ReloadAssumption DEF ResizeTo, ConfigType
  <2>5. /\ mgr' \in [tasks : ListPtr, errors : Object, config : Object]
        /\ mgr'.tasks = reloadTx.tasks
      BY <1>5, <2>1, <2>3, Zenon
  <2>6. /\ mainTx' \in Message /\ mainTx'.type = "RECLAIM"
        /\ mainTx'.tasks = reloadTx.tasks
      BY <1>3, <1>5, <2>1, Zenon DEF Msg, Message, Ptr
  <2>7. Polled' = listOf[reloadTx.tasks]
      BY <1>2, <2>5, Zenon DEF Polled
  <2>8. HeapTypeOK'
    <3>1. UNCHANGED <<live, listOf, failedOf, readAt>> /\ heap' \subseteq Object
        BY <1>2, <1>3, <2>1, Zenon
    <3> QED BY <3>1, Zenon DEF IInv, TypeOK, HeapTypeOK
  <2>9. TypeOK'
      BY <1>1, <1>2, <2>1, <2>4, <2>5, <2>6, <2>8, TypeFrame, Zenon
         DEF IInv, TypeOK, MainTypeOK, BoxTypeOK
  <2>10. ReloadTurn' /\ ~MainTurn' /\ TurnInv'
      BY <1>1, <1>2, <2>1, <2>6, HandlerTurn, Zenon DEF TurnInv, ReloadTurn, MainTurn
  <2>11. AgeInv' /\ PolledInv'
    <3>1. live' = live /\ cycle' = cycle /\ phase' = "reclaim"
        BY <1>2, <2>1, Zenon
    <3>2. AgeInv'
        BY <1>4, <3>1, Zenon DEF AgeInv
    <3>3. mgr'.tasks[2] <= cycle'
        BY SMTT(30), <1>3, <2>2, <2>5, <3>1
    <3>4. Polled' \subseteq live'
        BY <1>5, <2>7, <3>1, Zenon
    <3> QED BY <3>2, <3>3, <3>4, Zenon DEF PolledInv
  <2>12. ReclaimRequested'
      BY <1>2, <2>2, <2>5, <2>6, <2>7, Zenon DEF ReclaimRequested
  <2>13. PlanRequested' /\ SurvivorsReported' /\ NewTasksReported' /\ BuildRequested'
      BY <2>1, Zenon DEF PlanRequested, SurvivorsReported, NewTasksReported, BuildRequested
  <2> QED BY <1>2, <2>9, <2>10, <2>11, <2>12, <2>13, Zenon DEF IInv, MessageInv, ProtocolInv
<1>7. CASE reloadTx.type = "ERROR"
  <2>1. /\ heap' = heap \ {mgr.tasks} /\ mgr' = [mgr EXCEPT !.tasks = reloadTx.tasks]
        /\ TryStartReload(mgr'.tasks) /\ UNCHANGED allocCap
      BY <1>5, <1>7, Zenon DEF HandleNewTasks
  <2>2. /\ mgr' \in [tasks : ListPtr, errors : Object, config : Object]
        /\ mgr'.tasks = reloadTx.tasks
      BY <1>3, <1>5, <2>1, Zenon
  <2>3. reloadTx.tasks[2] <= cycle
      BY SMTT(30), <1>1, <1>3, <1>4, <1>5, <1>7, ReloadAssumption
         DEF NewTasksReported, ListPtr, Cycles
  <2>4. /\ ProtocolInv' /\ EnvTypeOK' /\ mainTx' \in Message /\ reloadBox' \in BOOLEAN
        /\ phase' \in {"idle", "survivors"}
    <3>1. TryStartReload(reloadTx.tasks)
        BY <2>1, <2>2, Zenon
    <3> QED BY <1>1, <1>2, <1>5, <2>2, <2>3, <3>1, HandlerTurn, StartReload, Zenon
  <2>5. HeapTypeOK'
      BY <1>2, <1>3, <2>1, Zenon DEF IInv, TypeOK, HeapTypeOK
  <2>6. TypeOK'
      BY <1>1, <1>2, <2>1, <2>2, <2>4, <2>5, TypeFrame, Zenon
         DEF IInv, TypeOK, MainTypeOK, BoxTypeOK
  <2> QED BY <1>2, <2>4, <2>6 DEF IInv, MessageInv
<1> QED BY <1>4, <1>6, <1>7, Zenon

-----------------------------------------------------------------------------
(* Reload thread. *)

(* The invariant survives the end of the reload thread. *)
LEMMA ReloadExitInv ==
    ASSUME IInv, ReloadExit
    PROVE  IInv'
<1> USE DEF notReload, envVars, mainVars
<1>1. Unused' = Unused
    BY UnusedFrame, Zenon
       DEF ReloadExit
<1>2. HeapTypeOK' /\ ReloadTypeOK'
    BY Zenon DEF IInv, TypeOK, HeapTypeOK, ReloadTypeOK, ReloadExit
<1>3. TypeOK'
    BY <1>2, TypeFrame, Zenon
       DEF IInv, TypeOK, heapVars, boxVars, reloadVars, outVars, ReloadExit
<1>4. ProtocolInv'
  <2>1. ReloadTurn' = ReloadTurn /\ MainTurn' = MainTurn
      BY Zenon DEF ReloadExit, ReloadTurn, MainTurn
  <2>2. TurnInv'
      BY <2>1, Zenon DEF IInv, ProtocolInv, TurnInv, ReloadExit
  <2> QED BY <2>1, <2>2, TurnFrame, Zenon DEF IInv, ReloadExit
<1>5. ThreadInv'
    BY Zenon DEF IInv, ThreadInv, ReloadExit
<1>6. OutputInv'
    BY Zenon DEF IInv, TypeOK, OutTypeOK, ThreadInv, MessageInv, OutputInv, Popped,
           ReloadExit
<1>7. HandshakeInv'
    BY Zenon DEF IInv, MessageInv, HandshakeInv, ReloadExit
<1>8. DrainInv'
    BY <1>1, Zenon
       DEF IInv, TypeOK, OutTypeOK, MessageInv, OutputInv, HandshakeInv, DrainInv,
           ReloadTurn, Popped, ReloadExit
<1>9. MessageTasksLive'
    BY Zenon DEF IInv, TypeOK, OutTypeOK, MessageInv, MessageTasksLive, MessageTasks,
           ReloadExit
<1> QED BY <1>3, <1>4, <1>5, <1>6, <1>7, <1>8, <1>9, Zenon
       DEF IInv, MessageInv

(* The invariant survives reload_mbox_recv. *)
LEMMA ReloadRecvInv ==
    ASSUME IInv, ReloadRecv
    PROVE  IInv'
<1> USE DEF notReload, envVars, heapVars, mainVars
<1>1. \/ rlPc' = "plan" /\ phase = "survivors"
      \/ rlPc' = "build" /\ phase = "newTasks"
      \/ rlPc' = "reclaim" /\ phase = "reclaim"
  <2>1. TurnInv /\ ReloadTurn /\ phase \in {"idle", "survivors", "newTasks", "reclaim"}
      BY Zenon DEF IInv, TypeOK, MainTypeOK, ProtocolInv, ReloadTurn, ReloadRecv
  <2>2. CASE phase = "survivors"
      BY <2>1, <2>2, Zenon DEF TurnInv, ReloadRecv
  <2>3. CASE phase = "newTasks"
      BY <2>1, <2>3, Zenon DEF TurnInv, ReloadRecv
  <2>4. CASE phase = "reclaim"
      BY <2>1, <2>4, Zenon DEF TurnInv, ReloadRecv
  <2> QED BY <2>1, <2>2, <2>3, <2>4, Zenon DEF TurnInv
<1>2. /\ rlPc = "recv" /\ reloadBox /\ rlRunning
      /\ rlPc' \in {"plan", "build", "reclaim"} /\ reloadBox' = FALSE
      /\ UNCHANGED <<notReload, heapVars, mainBox, reloadTx, ctx, drainSkipped,
                     drainResponse, drainRequest>>
    BY <1>1, Zenon
       DEF ReloadRecv
<1>3. BoxTypeOK'
    BY <1>2, Zenon
       DEF IInv, TypeOK, BoxTypeOK, ReloadRecv
<1>4. Unused' = Unused
    BY UnusedFrame, Zenon
       DEF ReloadRecv
<1>5. ReloadTypeOK'
    BY <1>2, Zenon DEF IInv, TypeOK, ReloadTypeOK
<1>6. TypeOK'
    BY <1>2, <1>3, <1>5, TypeFrame, Zenon DEF IInv, TypeOK, outVars
<1>7. ProtocolInv'
  <2>1. ReloadTurn' = ReloadTurn /\ MainTurn' = MainTurn
      BY <1>2, Zenon DEF ReloadTurn, MainTurn
  <2>2. TurnInv'
      BY <1>1, <1>2, <2>1, Zenon DEF IInv, ProtocolInv, TurnInv
  <2> QED BY <1>2, <2>1, <2>2, TurnFrame, Zenon DEF IInv
<1>8. ThreadInv'
    BY <1>2, Zenon DEF IInv, ThreadInv
<1>9. OutputInv'
    BY <1>2, Zenon DEF IInv, MessageInv, OutputInv, Popped
<1>10. HandshakeInv'
    BY <1>2, Zenon DEF IInv, MessageInv, HandshakeInv
<1>11. DrainInv'
    BY <1>2, <1>4, Zenon DEF IInv, MessageInv, DrainInv, ReloadTurn, Popped
<1>12. MessageTasksLive'
    BY <1>2, Zenon DEF IInv, MessageInv, MessageTasksLive, MessageTasks
<1> QED BY <1>6, <1>7, <1>8, <1>9, <1>10, <1>11, <1>12
       DEF IInv, MessageInv

(* The invariant survives the drain request of reload_do_reclaim. *)
LEMMA ReclaimStartInv ==
    ASSUME IInv, ReclaimStart
    PROVE  IInv'
<1> USE DEF notReload, envVars, heapVars, mainVars
<1>1. Unused' = Unused
    BY UnusedFrame, Zenon
       DEF ReclaimStart
<1>2. OutTypeOK' /\ ReloadTypeOK'
    BY Zenon DEF IInv, TypeOK, OutTypeOK, ReloadTypeOK, ReclaimStart
<1>3. TypeOK'
    BY <1>2, TypeFrame, Zenon
       DEF IInv, TypeOK, boxVars, reloadVars, outVars, ReclaimStart
<1>4. ProtocolInv'
  <2>1. ReloadTurn' = ReloadTurn /\ MainTurn' = MainTurn
      BY Zenon DEF ReclaimStart, ReloadTurn, MainTurn
  <2>2. TurnInv'
      BY <2>1, Zenon DEF IInv, ProtocolInv, TurnInv, ReclaimStart
  <2> QED BY <2>1, <2>2, TurnFrame, Zenon DEF IInv, ReclaimStart
<1>5. ThreadInv'
    BY Zenon DEF IInv, ThreadInv, ReclaimStart
<1>6. OutputInv'
    BY Zenon DEF IInv, TypeOK, OutTypeOK, ThreadInv, MessageInv, OutputInv, Popped,
           ReclaimStart
<1>7. HandshakeInv'
    BY Zenon DEF IInv, MessageInv, HandshakeInv, ReclaimStart
<1>8. DrainInv'
    BY <1>1
       DEF IInv, TypeOK, OutTypeOK, MessageInv, OutputInv, HandshakeInv, DrainInv,
           ReloadTurn, Popped, ReclaimStart
<1>9. MessageTasksLive'
    BY Zenon DEF IInv, TypeOK, OutTypeOK, MessageInv, MessageTasksLive, MessageTasks,
           ReclaimStart
<1> QED BY <1>3, <1>4, <1>5, <1>6, <1>7, <1>8, <1>9
       DEF IInv, MessageInv

(* The invariant survives the head of the wait for the drain. *)
LEMMA WaitRunningInv ==
    ASSUME IInv, WaitRunning
    PROVE  IInv'
<1> USE DEF notReload, envVars, heapVars, mainVars
<1>1. Unused' = Unused
    BY UnusedFrame, Zenon
       DEF WaitRunning
<1>2. OutTypeOK' /\ ReloadTypeOK'
    BY Zenon DEF IInv, TypeOK, OutTypeOK, ReloadTypeOK, WaitRunning
<1>3. TypeOK'
    BY <1>2, TypeFrame, Zenon
       DEF IInv, TypeOK, boxVars, reloadVars, outVars, WaitRunning
<1>4. ProtocolInv'
  <2>1. ReloadTurn' = ReloadTurn /\ MainTurn' = MainTurn
      BY Zenon DEF WaitRunning, ReloadTurn, MainTurn
  <2>2. TurnInv'
      BY <2>1, Zenon DEF IInv, ProtocolInv, TurnInv, WaitRunning
  <2> QED BY <2>1, <2>2, TurnFrame, Zenon DEF IInv, WaitRunning
<1>5. ThreadInv'
    BY Zenon DEF IInv, ThreadInv, WaitRunning
<1>6. OutputInv'
    BY Zenon DEF IInv, TypeOK, OutTypeOK, ThreadInv, MessageInv, OutputInv, Popped,
           WaitRunning
<1>7. HandshakeInv'
    BY Zenon DEF IInv, MessageInv, HandshakeInv, WaitRunning
<1>8. DrainInv'
    BY <1>1, Zenon
       DEF IInv, TypeOK, OutTypeOK, MessageInv, OutputInv, HandshakeInv, DrainInv,
           ReloadTurn, Popped, WaitRunning
<1>9. MessageTasksLive'
    BY Zenon DEF IInv, TypeOK, OutTypeOK, MessageInv, MessageTasksLive, MessageTasks,
           WaitRunning
<1> QED BY <1>3, <1>4, <1>5, <1>6, <1>7, <1>8, <1>9
       DEF IInv, MessageInv

(* The invariant survives one more round of the wait. *)
LEMMA WaitUnansweredInv ==
    ASSUME IInv, WaitUnanswered
    PROVE  IInv'
<1> USE DEF notReload, envVars, heapVars, mainVars
<1>1. Unused' = Unused
    BY UnusedFrame, Zenon
       DEF WaitUnanswered
<1>2. OutTypeOK' /\ ReloadTypeOK'
    BY Zenon DEF IInv, TypeOK, OutTypeOK, ReloadTypeOK, WaitUnanswered
<1>3. TypeOK'
    BY <1>2, TypeFrame, Zenon
       DEF IInv, TypeOK, boxVars, reloadVars, outVars, WaitUnanswered
<1>4. ProtocolInv'
  <2>1. ReloadTurn' = ReloadTurn /\ MainTurn' = MainTurn
      BY Zenon DEF WaitUnanswered, ReloadTurn, MainTurn
  <2>2. TurnInv'
      BY <2>1, Zenon DEF IInv, ProtocolInv, TurnInv, WaitUnanswered
  <2> QED BY <2>1, <2>2, TurnFrame, Zenon DEF IInv, WaitUnanswered
<1>5. ThreadInv'
    BY Zenon DEF IInv, ThreadInv, WaitUnanswered
<1>6. OutputInv'
    BY Zenon DEF IInv, TypeOK, OutTypeOK, ThreadInv, MessageInv, OutputInv, Popped,
           WaitUnanswered
<1>7. HandshakeInv'
    BY Zenon DEF IInv, MessageInv, HandshakeInv, WaitUnanswered
<1>8. DrainInv'
    BY <1>1, Zenon
       DEF IInv, TypeOK, OutTypeOK, MessageInv, OutputInv, HandshakeInv, DrainInv,
           ReloadTurn, Popped, WaitUnanswered
<1>9. MessageTasksLive'
    BY Zenon DEF IInv, TypeOK, OutTypeOK, MessageInv, MessageTasksLive, MessageTasks,
           WaitUnanswered
<1> QED BY <1>3, <1>4, <1>5, <1>6, <1>7, <1>8, <1>9
       DEF IInv, MessageInv

(* The invariant survives the end of the wait by an answer. *)
LEMMA WaitAnsweredInv ==
    ASSUME IInv, WaitAnswered
    PROVE  IInv'
<1> USE DEF notReload, envVars, heapVars, mainVars
<1>1. Unused' = Unused
    BY UnusedFrame, Zenon
       DEF WaitAnswered
<1>2. OutTypeOK' /\ ReloadTypeOK'
    BY Zenon DEF IInv, TypeOK, OutTypeOK, ReloadTypeOK, WaitAnswered
<1>3. TypeOK'
    BY <1>2, TypeFrame, Zenon
       DEF IInv, TypeOK, boxVars, reloadVars, outVars, WaitAnswered
<1>4. ProtocolInv'
  <2>1. ReloadTurn' = ReloadTurn /\ MainTurn' = MainTurn
      BY Zenon DEF WaitAnswered, ReloadTurn, MainTurn
  <2>2. TurnInv'
      BY <2>1, Zenon DEF IInv, ProtocolInv, TurnInv, WaitAnswered
  <2> QED BY <2>1, <2>2, TurnFrame, Zenon DEF IInv, WaitAnswered
<1>5. ThreadInv'
    BY Zenon DEF IInv, ThreadInv, WaitAnswered
<1>6. OutputInv'
    BY Zenon DEF IInv, TypeOK, OutTypeOK, ThreadInv, MessageInv, OutputInv, Popped,
           WaitAnswered
<1>7. HandshakeInv'
    BY Zenon DEF IInv, MessageInv, HandshakeInv, WaitAnswered
<1>8. DrainInv'
    BY <1>1, Zenon
       DEF IInv, TypeOK, OutTypeOK, MessageInv, OutputInv, HandshakeInv, DrainInv,
           ReloadTurn, Popped, WaitAnswered
<1>9. MessageTasksLive'
    BY Zenon DEF IInv, TypeOK, OutTypeOK, MessageInv, MessageTasksLive, MessageTasks,
           WaitAnswered
<1> QED BY <1>3, <1>4, <1>5, <1>6, <1>7, <1>8, <1>9
       DEF IInv, MessageInv

(* The invariant survives the end of the wait by a shutdown. *)
LEMMA WaitStoppedInv ==
    ASSUME IInv, WaitStopped
    PROVE  IInv'
<1> USE DEF notReload, envVars, heapVars, mainVars
<1>1. Unused' = Unused
    BY UnusedFrame, Zenon
       DEF WaitStopped
<1>2. OutTypeOK' /\ ReloadTypeOK'
    BY Zenon DEF IInv, TypeOK, OutTypeOK, ReloadTypeOK, WaitStopped
<1>3. TypeOK'
    BY <1>2, TypeFrame, Zenon
       DEF IInv, TypeOK, boxVars, reloadVars, outVars, WaitStopped
<1>4. ProtocolInv'
  <2>1. ReloadTurn' = ReloadTurn /\ MainTurn' = MainTurn
      BY Zenon DEF WaitStopped, ReloadTurn, MainTurn
  <2>2. TurnInv'
      BY <2>1, Zenon DEF IInv, ProtocolInv, TurnInv, WaitStopped
  <2> QED BY <2>1, <2>2, TurnFrame, Zenon DEF IInv, WaitStopped
<1>5. ThreadInv'
    BY Zenon DEF IInv, ThreadInv, WaitStopped
<1>6. OutputInv'
    BY Zenon DEF IInv, TypeOK, OutTypeOK, ThreadInv, MessageInv, OutputInv, Popped,
           WaitStopped
<1>7. HandshakeInv'
    BY Zenon DEF IInv, MessageInv, HandshakeInv, WaitStopped
<1>8. DrainInv'
    BY <1>1, Zenon
       DEF IInv, TypeOK, OutTypeOK, MessageInv, OutputInv, HandshakeInv, DrainInv,
           ReloadTurn, Popped, WaitStopped
<1>9. MessageTasksLive'
    BY Zenon DEF IInv, TypeOK, OutTypeOK, MessageInv, MessageTasksLive, MessageTasks,
           WaitStopped
<1> QED BY <1>3, <1>4, <1>5, <1>6, <1>7, <1>8, <1>9
       DEF IInv, MessageInv

(* A report to main: no drain is under way when the turn goes over.        *)
LEMMA ReportQuiet ==
    ASSUME IInv, rlPc \in {"plan", "build", "free"}, rlPc' = "recv", mainBox' = TRUE,
           UNCHANGED <<notReload, reloadBox, drainSkipped, drainResponse, drainRequest>>
    PROVE  /\ ThreadInv' /\ OutputInv' /\ HandshakeInv' /\ DrainInv'
           /\ EnvTypeOK' /\ MainTypeOK' /\ OutTypeOK'
           /\ ReloadTurn /\ ~MainTurn /\ ~ReloadTurn' /\ MainTurn'
           /\ reloadBox' = FALSE /\ mainPc' = mainPc /\ mainPc # "handle"
<1> USE DEF notReload, envVars, mainVars, outVars
<1>1. ThreadInv'
    BY Zenon DEF IInv, ThreadInv
<1>2. OutputInv'
    BY Zenon DEF IInv, MessageInv, OutputInv, Popped
<1>3. HandshakeInv'
    BY Zenon DEF IInv, MessageInv, HandshakeInv
<1>4. ReloadTurn /\ ~MainTurn /\ ~ReloadTurn' /\ MainTurn' /\ reloadBox' = FALSE
    BY Zenon DEF IInv, ProtocolInv, TurnInv, TypeOK, BoxTypeOK, ReloadTurn, MainTurn
<1>5. DrainInv'
    BY <1>4, NoDrain, Zenon DEF IInv, MessageInv, DrainInv
<1>6. EnvTypeOK' /\ MainTypeOK' /\ OutTypeOK'
    BY TypeFrame, Zenon DEF IInv, TypeOK
<1> QED BY <1>1, <1>2, <1>3, <1>4, <1>5, <1>6, Zenon DEF MainTurn

(* The invariant survives a failing reload_do_plan. *)
LEMMA PlanFailsInv ==
    ASSUME IInv, PlanFails
    PROVE  IInv'
<1>1. /\ rlPc = "plan" /\ rlPc' = "recv" /\ mainBox' = TRUE
      /\ reloadTx' = Msg("ERROR", NULL, NULL, NULL)
      /\ readAt' = [readAt EXCEPT ![cycle] = file] /\ ctx' = CtxReset
      /\ UNCHANGED <<notReload, live, heap, listOf, failedOf, reloadBox, drainSkipped,
                     drainResponse, drainRequest>>
    BY Zenon DEF PlanFails, ReportTo
<1>2. /\ ThreadInv' /\ OutputInv' /\ HandshakeInv' /\ DrainInv'
      /\ EnvTypeOK' /\ MainTypeOK' /\ OutTypeOK'
      /\ ReloadTurn /\ ~MainTurn /\ ~ReloadTurn' /\ MainTurn'
      /\ reloadBox' = FALSE /\ mainPc' = mainPc /\ mainPc # "handle"
    BY <1>1, ReportQuiet, Zenon
<1>3. UNCHANGED <<phase, cycle, mgr, mainMsg, mainTx, rlRunning, outMsg, ring>>
    BY <1>1, Zenon DEF notReload, mainVars
<1>4. phase = "survivors" /\ reloadTx' \in Message /\ reloadTx'.type = "ERROR"
    BY <1>1, Zenon DEF IInv, ProtocolInv, TurnInv, Msg, Message, Ptr
<1>5. HeapTypeOK'
    BY <1>1, Zenon DEF IInv, TypeOK, EnvTypeOK, HeapTypeOK
<1>6. ReloadTypeOK' /\ BoxTypeOK'
    BY <1>1, <1>2, <1>3, <1>4, Zenon DEF IInv, TypeOK, ReloadTypeOK, BoxTypeOK, CtxReset, Ptr
<1>7. TurnInv'
    BY <1>1, <1>2, <1>3, <1>4, Zenon DEF IInv, ProtocolInv, TurnInv
<1>8. AgeInv' /\ PlanRequested' /\ PolledInv'
    BY <1>1, <1>2, <1>3, <1>4, Zenon
       DEF IInv, ProtocolInv, AgeInv, PlanRequested, PolledInv, Polled
<1>9. SurvivorsReported' /\ BuildRequested' /\ NewTasksReported' /\ ReclaimRequested'
    BY <1>3, <1>4, Zenon
       DEF SurvivorsReported, BuildRequested, NewTasksReported, ReclaimRequested
<1>10. MessageTasksLive'
    BY <1>1, <1>3, Zenon DEF IInv, MessageInv, MessageTasksLive, MessageTasks
<1> QED BY <1>2, <1>5, <1>6, <1>7, <1>8, <1>9, <1>10, Zenon
        DEF IInv, TypeOK, ProtocolInv, MessageInv

(* The invariant survives reload_do_plan. *)
LEMMA PlanInv ==
    ASSUME IInv, Plan
    PROVE  IInv'
<1>1. /\ rlPc = "plan" /\ rlPc' = "recv" /\ mainBox' = TRUE
      /\ file # Bad /\ NoFp \notin file.tasks
      /\ reloadTx' = Msg("SURVIVORS", <<"survivors", cycle>>, NULL, NULL)
      /\ readAt' = [readAt EXCEPT ![cycle] = file]
      /\ heap' = heap \cup {<<"config", cycle>>, <<"survivors", cycle>>}
      /\ listOf' = [listOf EXCEPT ![<<"survivors", cycle>>] =
                       FindTasks(file.tasks, mainTx.tasks)]
      /\ ctx' = [ctx EXCEPT !.current = mainTx.tasks, !.config = <<"config", cycle>>]
      /\ UNCHANGED <<notReload, live, failedOf, reloadBox, drainSkipped, drainResponse,
                     drainRequest>>
    BY Zenon DEF Plan, ReportTo
<1>2. /\ ThreadInv' /\ OutputInv' /\ HandshakeInv' /\ DrainInv'
      /\ EnvTypeOK' /\ MainTypeOK' /\ OutTypeOK'
      /\ ReloadTurn /\ ~MainTurn /\ ~ReloadTurn' /\ MainTurn'
      /\ reloadBox' = FALSE /\ mainPc' = mainPc /\ mainPc # "handle"
    BY <1>1, ReportQuiet, Zenon
<1>3. UNCHANGED <<phase, cycle, mgr, mainMsg, mainTx, rlRunning, outMsg, ring>>
    BY <1>1, Zenon DEF notReload, mainVars
<1>4. /\ phase = "survivors" /\ mgr.tasks[2] < cycle /\ mainTx.tasks = mgr.tasks
    BY <1>1, <1>2, Zenon DEF IInv, ProtocolInv, TurnInv, PlanRequested
<1>5. /\ cycle \in Cycles /\ cycle \in Int /\ mgr.tasks \in ListPtr /\ mgr.tasks \in Ptr
      /\ file \in Configs
    BY <1>1, ReloadAssumption
       DEF IInv, TypeOK, EnvTypeOK, MainTypeOK, Cycles, ListPtr, Object, Ptr
<1>6. /\ <<"survivors", cycle>> \in ListPtr /\ <<"survivors", cycle>> \in Object
      /\ <<"config", cycle>> \in Object /\ mgr.tasks # <<"survivors", cycle>>
    BY <1>4, <1>5 DEF ListPtr, Object
<1>7. /\ reloadTx' \in Message /\ reloadTx'.type = "SURVIVORS"
      /\ reloadTx'.tasks = <<"survivors", cycle>>
    BY <1>1, <1>6, Zenon DEF Msg, Message, Ptr
<1>8. /\ listOf \in [ListPtr -> SUBSET Task] /\ readAt \in [Cycles -> Configs \cup {Bad}]
      /\ ctx \in [current : Ptr, old : Ptr, config : Ptr]
    BY Zenon DEF IInv, TypeOK, HeapTypeOK, ReloadTypeOK
<1>9. FindTasks(file.tasks, mainTx.tasks) \subseteq listOf[mgr.tasks]
    BY <1>4, Zenon DEF FindTasks
<1>10. /\ listOf' \in [ListPtr -> SUBSET Task] /\ Polled' = Polled
       /\ Polled = listOf[mgr.tasks] /\ listOf'[mgr.tasks] = listOf[mgr.tasks]
       /\ listOf'[<<"survivors", cycle>>] \subseteq listOf[mgr.tasks]
    BY <1>1, <1>3, <1>5, <1>6, <1>8, <1>9, Zenon DEF Polled
<1>11. readAt' \in [Cycles -> Configs \cup {Bad}] /\ readAt'[cycle] = file
    BY <1>1, <1>5, <1>8, Zenon
<1>12. /\ ctx' \in [current : Ptr, old : Ptr, config : Ptr]
       /\ ctx'.current = mgr.tasks /\ ctx'.config = <<"config", cycle>>
    BY <1>1, <1>4, <1>5, <1>6, <1>8, Zenon DEF Ptr
<1>13. HeapTypeOK'
    BY <1>1, <1>6, <1>10, <1>11, Zenon DEF IInv, TypeOK, HeapTypeOK
<1>14. ReloadTypeOK' /\ BoxTypeOK'
    BY <1>1, <1>2, <1>3, <1>7, <1>12, Zenon DEF IInv, TypeOK, ReloadTypeOK, BoxTypeOK
<1>15. TurnInv'
    BY <1>1, <1>2, <1>3, <1>4, <1>7, Zenon DEF IInv, ProtocolInv, TurnInv
<1>16. AgeInv' /\ PlanRequested' /\ PolledInv'
    BY <1>1, <1>2, <1>3, <1>4, <1>10, Zenon
       DEF IInv, ProtocolInv, AgeInv, PlanRequested, PolledInv
<1>17. SurvivorsReported'
    BY <1>1, <1>3, <1>5, <1>7, <1>10, <1>11, <1>12, Zenon DEF SurvivorsReported
<1>18. BuildRequested' /\ NewTasksReported' /\ ReclaimRequested'
    BY <1>3, <1>4, Zenon DEF BuildRequested, NewTasksReported, ReclaimRequested
<1>19. MessageTasksLive'
    BY <1>1, <1>3, Zenon DEF IInv, MessageInv, MessageTasksLive, MessageTasks
<1> QED BY <1>2, <1>13, <1>14, <1>15, <1>16, <1>17, <1>18, <1>19, Zenon
        DEF IInv, TypeOK, ProtocolInv, MessageInv

(* The invariant survives reload_do_build. *)
LEMMA BuildInv ==
    ASSUME IInv, NEW failed \in SUBSET Fp, Build(failed)
    PROVE  IInv'
<1> DEFINE wanted == readAt[ctx.config[2]].tasks
           new == Reused(wanted) \cup Opened(wanted, failed)
<1>1. /\ rlPc = "build" /\ rlPc' = "recv" /\ mainBox' = TRUE
      /\ failed \subseteq wanted
      /\ live' = live \cup Opened(wanted, failed)
      /\ heap' = heap \cup {<<"full", cycle>>, <<"errors", cycle>>}
      /\ listOf' = [listOf EXCEPT ![<<"full", cycle>>] = new]
      /\ failedOf' = [failedOf EXCEPT ![cycle] = failed]
      /\ ctx' = [ctx EXCEPT !.old = mainTx.tasks, !.config = NULL]
      /\ reloadTx' = Msg("NEW_TASKS", <<"full", cycle>>, <<"errors", cycle>>, ctx.config)
      /\ UNCHANGED <<notReload, readAt, reloadBox, drainSkipped, drainResponse,
                     drainRequest>>
    BY Zenon DEF Build, ReportTo
<1>2. /\ ThreadInv' /\ OutputInv' /\ HandshakeInv' /\ DrainInv'
      /\ EnvTypeOK' /\ MainTypeOK' /\ OutTypeOK'
      /\ ReloadTurn /\ ~MainTurn /\ ~ReloadTurn' /\ MainTurn'
      /\ reloadBox' = FALSE /\ mainPc' = mainPc /\ mainPc # "handle"
    BY <1>1, ReportQuiet, Zenon
<1>3. UNCHANGED <<phase, cycle, mgr, mainMsg, mainTx, rlRunning, outMsg, ring>>
    BY <1>1, Zenon DEF notReload, mainVars
<1>4. phase = "newTasks" /\ BuildRequested /\ AgeInv /\ PolledInv
    BY <1>1, Zenon DEF IInv, ProtocolInv, TurnInv
<1>5. /\ mainTx.tasks = ctx.current /\ ctx.current \in ListPtr
      /\ mainPc # "exited" => listOf[ctx.current] \subseteq live
      /\ mgr.tasks = <<"survivors", cycle>> /\ ctx.config = <<"config", cycle>>
      /\ readAt[cycle] \in Configs /\ NoFp \notin readAt[cycle].tasks
    BY <1>2, <1>4, Zenon DEF BuildRequested, OwnList
<1>6. cycle \in Cycles /\ cycle \in Int
    BY ReloadAssumption DEF IInv, TypeOK, EnvTypeOK, Cycles
<1>7. wanted \subseteq Fp
  <2>1. PICK c : c = readAt[cycle] /\ c \in ConfigType /\ NoFp \notin c.tasks
      BY <1>5, ReloadAssumption, Zenon
  <2>2. c.tasks \subseteq Fp
      BY <2>1 DEF ConfigType, AnyFp
  <2>3. ctx.config[2] = cycle
      BY <1>5
  <2> QED BY <2>1, <2>2, <2>3, Zenon
<1>8. /\ <<"full", cycle>> \in ListPtr /\ <<"full", cycle>> \in Object
      /\ <<"errors", cycle>> \in Object /\ <<"config", cycle>> \in Object
      /\ mgr.tasks \in ListPtr /\ mgr.tasks # <<"full", cycle>>
    BY <1>5, <1>6 DEF ListPtr, Object
<1>9. /\ listOf \in [ListPtr -> SUBSET Task] /\ live \subseteq Task /\ heap \subseteq Object
      /\ failedOf \in [Cycles -> SUBSET AnyFp] /\ readAt \in [Cycles -> Configs \cup {Bad}]
      /\ ctx \in [current : Ptr, old : Ptr, config : Ptr]
    BY Zenon DEF IInv, TypeOK, HeapTypeOK, ReloadTypeOK
<1>10. \A t \in Opened(wanted, failed) : t \in Task /\ t.cycle = cycle /\ t.fp \in Fp
    BY <1>6, <1>7, Zenon DEF Opened, Task, AnyFp
<1>11. \A t \in Reused(wanted) : t \in listOf[ctx.current] /\ t.fp # NoFp
    BY Zenon DEF Reused, FindTasks
<1>12. /\ new \subseteq Task /\ (mainPc # "exited" => new \subseteq live')
       /\ \A t \in new : t.fp # NoFp
  <2>1. listOf[ctx.current] \subseteq Task
      BY <1>5, <1>9, Zenon
  <2> QED BY <1>1, <1>5, <1>10, <1>11, <2>1, ReloadAssumption, Zenon
<1> HIDE DEF new
<1>13. /\ listOf' \in [ListPtr -> SUBSET Task] /\ Polled' = Polled
       /\ listOf'[<<"full", cycle>>] = new
    BY <1>1, <1>3, <1>8, <1>9, <1>12, Zenon DEF Polled
<1>14. /\ reloadTx' \in Message /\ reloadTx'.type = "NEW_TASKS"
       /\ reloadTx'.tasks = <<"full", cycle>> /\ reloadTx'.errors = <<"errors", cycle>>
       /\ reloadTx'.config = <<"config", cycle>>
    BY <1>1, <1>5, <1>8, Zenon DEF Msg, Message, Ptr
<1>15. /\ ctx' \in [current : Ptr, old : Ptr, config : Ptr] /\ ctx'.old = ctx.current
    BY <1>1, <1>5, <1>9, Zenon DEF Ptr
<1>16. failedOf' \in [Cycles -> SUBSET AnyFp]
    BY <1>1, <1>6, <1>9, Zenon DEF AnyFp
<1>17. HeapTypeOK'
    BY <1>1, <1>8, <1>9, <1>10, <1>13, <1>16, Zenon DEF HeapTypeOK
<1>18. ReloadTypeOK' /\ BoxTypeOK'
    BY <1>1, <1>2, <1>3, <1>14, <1>15, Zenon DEF IInv, TypeOK, ReloadTypeOK, BoxTypeOK
<1>19. TurnInv'
    BY <1>1, <1>2, <1>3, <1>4, <1>14, Zenon DEF IInv, ProtocolInv, TurnInv
<1>20. AgeInv' /\ PolledInv'
    BY <1>1, <1>2, <1>3, <1>4, <1>6, <1>10, <1>13 DEF AgeInv, PolledInv
<1>21. NewTasksReported'
    BY <1>1, <1>2, <1>3, <1>5, <1>8, <1>12, <1>13, <1>14, <1>15, Zenon
       DEF NewTasksReported, OwnList
<1>22. PlanRequested' /\ SurvivorsReported' /\ BuildRequested' /\ ReclaimRequested'
    BY <1>2, <1>3, <1>4, Zenon
       DEF PlanRequested, SurvivorsReported, BuildRequested, ReclaimRequested
<1>23. MessageTasksLive'
    BY <1>1, <1>3, Zenon DEF IInv, MessageInv, MessageTasksLive, MessageTasks
<1> QED BY <1>2, <1>17, <1>18, <1>19, <1>20, <1>21, <1>22, <1>23, Zenon
        DEF IInv, TypeOK, ProtocolInv, MessageInv

(* The invariant survives a failing reload_do_build, which takes back what it opened. *)
LEMMA BuildFailsInv ==
    ASSUME IInv, NEW done \in SUBSET Fp, BuildFails(done)
    PROVE  IInv'
<1>1. /\ rlPc = "build" /\ rlPc' = "recv" /\ mainBox' = TRUE
      /\ live' = (live \cup Opened(done, {}))
                   \ {t \in Reused(done) \cup Opened(done, {}) :
                         t.fp \notin Fingerprints(ctx.current)}
      /\ heap' = heap \ {ctx.config}
      /\ ctx' = [CtxReset EXCEPT !.config = NULL]
      /\ reloadTx' = Msg("ERROR", mainTx.tasks, NULL, NULL)
      /\ UNCHANGED <<notReload, listOf, failedOf, readAt, reloadBox, drainSkipped,
                     drainResponse, drainRequest>>
    BY Zenon DEF BuildFails, ReportTo
<1>2. /\ ThreadInv' /\ OutputInv' /\ HandshakeInv' /\ DrainInv'
      /\ EnvTypeOK' /\ MainTypeOK' /\ OutTypeOK'
      /\ ReloadTurn /\ ~MainTurn /\ ~ReloadTurn' /\ MainTurn'
      /\ reloadBox' = FALSE /\ mainPc' = mainPc /\ mainPc # "handle"
    BY <1>1, ReportQuiet, Zenon
<1>3. UNCHANGED <<phase, cycle, mgr, mainMsg, mainTx, rlRunning, outMsg, ring>>
    BY <1>1, Zenon DEF notReload, mainVars
<1>4. phase = "newTasks" /\ BuildRequested /\ AgeInv /\ PolledInv
    BY <1>1, Zenon DEF IInv, ProtocolInv, TurnInv
<1>5. /\ mainTx.tasks = ctx.current /\ OwnList(ctx.current) /\ ctx.current[2] < cycle
      /\ mgr.tasks = <<"survivors", cycle>>
    BY <1>2, <1>4, Zenon DEF BuildRequested
<1>6. \A t \in live : t.cycle < cycle
    BY <1>2, <1>4, Zenon DEF AgeInv
<1>7. cycle \in Int /\ \A t \in live : t.cycle \in Int
    BY ReloadAssumption DEF IInv, TypeOK, EnvTypeOK, HeapTypeOK, Task, Cycles
<1>8. \A t \in Opened(done, {}) : t.cycle = cycle /\ t.fp \notin Fingerprints(ctx.current)
    BY Zenon DEF Opened
<1>9. \A t \in Reused(done) : t.fp \in Fingerprints(ctx.current)
    BY Zenon DEF Reused, FindTasks, Fingerprints
<1>10. live' = live
  <2>1. live \cap Opened(done, {}) = {}
      BY <1>6, <1>7, <1>8
  <2> QED BY <1>1, <1>8, <1>9, <2>1, Zenon
<1>11. /\ reloadTx' \in Message /\ reloadTx'.type = "ERROR"
       /\ reloadTx'.tasks = ctx.current
    BY <1>1, <1>5, Zenon DEF OwnList, ListPtr, Object, Msg, Message, Ptr
<1>12. HeapTypeOK'
    BY <1>1, <1>10, Zenon DEF IInv, TypeOK, HeapTypeOK
<1>13. ReloadTypeOK' /\ BoxTypeOK'
    BY <1>1, <1>2, <1>3, <1>11, Zenon
       DEF IInv, TypeOK, ReloadTypeOK, BoxTypeOK, CtxReset, Ptr
<1>14. TurnInv'
    BY <1>1, <1>2, <1>3, <1>4, <1>11, Zenon DEF IInv, ProtocolInv, TurnInv
<1>15. AgeInv' /\ PolledInv'
    BY <1>1, <1>2, <1>3, <1>4, <1>10, Zenon DEF AgeInv, PolledInv, Polled
<1>16. NewTasksReported'
    BY <1>1, <1>2, <1>3, <1>5, <1>10, <1>11, Zenon DEF NewTasksReported, OwnList
<1>17. PlanRequested' /\ SurvivorsReported' /\ BuildRequested' /\ ReclaimRequested'
    BY <1>2, <1>3, <1>4
       DEF PlanRequested, SurvivorsReported, BuildRequested, ReclaimRequested
<1>18. MessageTasksLive'
    BY <1>1, <1>3, <1>10, Zenon DEF IInv, MessageInv, MessageTasksLive, MessageTasks
<1> QED BY <1>2, <1>12, <1>13, <1>14, <1>15, <1>16, <1>17, <1>18
        DEF IInv, TypeOK, ProtocolInv, MessageInv

(* The invariant survives reclaim_old_resources, which destroys no task a message points to. *)
LEMMA ReclaimInv ==
    ASSUME IInv, Reclaim
    PROVE  IInv'
<1>1. /\ rlPc = "free" /\ rlPc' = "recv" /\ mainBox' = TRUE
      /\ live' = live \ Unused
      /\ heap' = heap \ {ctx.old, mainTx.errors, mainTx.config}
      /\ ctx' = CtxReset
      /\ reloadTx' = Msg("RECLAIMED", NULL, NULL, NULL)
      /\ UNCHANGED <<notReload, listOf, failedOf, readAt, reloadBox, drainSkipped,
                     drainResponse, drainRequest>>
    BY Zenon DEF Reclaim, ReportTo
<1>2. /\ ThreadInv' /\ OutputInv' /\ HandshakeInv' /\ DrainInv'
      /\ EnvTypeOK' /\ MainTypeOK' /\ OutTypeOK'
      /\ ReloadTurn /\ ~MainTurn /\ ~ReloadTurn' /\ MainTurn'
      /\ reloadBox' = FALSE /\ mainPc' = mainPc /\ mainPc # "handle"
    BY <1>1, ReportQuiet, Zenon
<1>3. UNCHANGED <<phase, cycle, mgr, mainMsg, mainTx, rlRunning, outMsg, ring>>
    BY <1>1, Zenon DEF notReload, mainVars
<1>4. phase = "reclaim" /\ ReclaimRequested /\ AgeInv /\ PolledInv
    BY <1>1, Zenon DEF IInv, ProtocolInv, TurnInv
<1>5. Polled \cap Unused = {} /\ Polled' = Polled
    BY <1>1, <1>2, <1>3, <1>4, PolledNotUnused, Zenon DEF Polled
<1>6. reloadTx' \in Message /\ reloadTx'.type = "RECLAIMED"
    BY <1>1, Zenon DEF Msg, Message, Ptr
<1>7. HeapTypeOK'
    BY <1>1, Zenon DEF IInv, TypeOK, HeapTypeOK
<1>8. ReloadTypeOK' /\ BoxTypeOK'
    BY <1>1, <1>2, <1>3, <1>6, Zenon
       DEF IInv, TypeOK, ReloadTypeOK, BoxTypeOK, CtxReset, Ptr
<1>9. TurnInv'
    BY <1>1, <1>2, <1>3, <1>4, <1>6, Zenon DEF IInv, ProtocolInv, TurnInv
<1>10. AgeInv' /\ PolledInv'
  <2>1. /\ live' = live \ Unused /\ cycle' = cycle /\ phase' = "reclaim"
        /\ mgr' = mgr /\ mainPc' = mainPc
      BY <1>1, <1>2, <1>3, <1>4, Zenon
  <2>2. AgeInv'
      BY <1>4, <2>1, Zenon DEF AgeInv
  <2>3. PolledInv'
      BY <1>4, <1>5, <2>1, Zenon DEF PolledInv
  <2> QED BY <2>2, <2>3, Zenon
<1>11. /\ PlanRequested' /\ SurvivorsReported' /\ BuildRequested'
       /\ NewTasksReported' /\ ReclaimRequested'
    BY <1>2, <1>3, <1>4, Zenon
       DEF PlanRequested, SurvivorsReported, BuildRequested, NewTasksReported,
           ReclaimRequested
<1>12. MessageTasksLive'
  <2> SUFFICES ASSUME ~drainSkipped PROVE MessageTasks' \subseteq live'
      BY <1>1, Zenon DEF MessageTasksLive
  <2>1. \A t \in MessageTasks : t \in live /\ t \notin Unused
    <3>1. MessageTasks \subseteq live
        BY Zenon DEF IInv, MessageInv, MessageTasksLive
    <3>2. mainMsg # NULL => mainMsg \notin Unused
        BY <1>2, <1>4, Zenon DEF IInv, MessageInv, DrainInv
    <3>3. /\ outMsg # NULL => outMsg \notin Unused
          /\ \A i \in 1 .. Len(ring) : ring[i] \notin Unused
      <4>1. rlPc = "free" /\ DrainInv
          BY <1>1, Zenon DEF IInv, MessageInv
      <4> QED BY <4>1, SMT DEF DrainInv
    <3> QED BY <3>1, <3>2, <3>3, SMT DEF MessageTasks
  <2>2. MessageTasks' = MessageTasks
      BY <1>3, Zenon DEF MessageTasks
  <2> QED BY <1>1, <2>1, <2>2, Zenon
<1> QED BY <1>2, <1>7, <1>8, <1>9, <1>10, <1>11, <1>12, Zenon
        DEF IInv, TypeOK, ProtocolInv, MessageInv
-----------------------------------------------------------------------------
(* Every step of every thread and of the surroundings preserves it. *)
LEMMA NextInv == IInv /\ [Next]_vars => IInv'
<1> SUFFICES ASSUME IInv, [Next]_vars PROVE IInv'
    OBVIOUS
<1>1. CASE \E c \in Configs \cup {Bad} : WriteConfig(c)
    BY <1>1, WriteConfigInv, Zenon
<1>2. CASE SignalReload \/ Quit
    BY <1>2, SignalReloadInv, QuitInv, Zenon
<1>3. CASE \E t \in Task : Capture(t)
    BY <1>3, CaptureInv, Zenon
<1>4. CASE MainCycle
    BY <1>4, MainCycleInv, Zenon
<1>5. CASE MainStep
    BY <1>5, AllocMsgInv, PushMsgInv, HandleSurvivorsInv, HandleNewTasksInv,
       HandleReclaimedInv, StopReloadInv, JoinReloadInv, DestroyInv, Zenon DEF MainStep
<1>6. CASE ReloadStep
    BY <1>6, ReloadExitInv, ReloadRecvInv, PlanInv, PlanFailsInv, BuildInv, BuildFailsInv,
       ReclaimStartInv, WaitRunningInv, WaitUnansweredInv, WaitAnsweredInv, WaitStoppedInv,
       ReclaimInv, Zenon DEF ReloadStep
<1>7. CASE OutputStep
    BY <1>7, OutLoopInv, OutRequestInv, OutPopInv, OutSendInv, OutEmptyInv, OutDrainedInv,
       OutRespondInv, OutExitInv, Zenon DEF OutputStep
<1>8. CASE Terminated \/ UNCHANGED vars
    BY <1>8, StutterInv, Zenon DEF Terminated
<1> QED BY <1>1, <1>2, <1>3, <1>4, <1>5, <1>6, <1>7, <1>8, Zenon DEF Next
-----------------------------------------------------------------------------
(* The inductive invariant holds in every reachable state, for any set of  *)
(* configurations, any ring and buffer size and any number of reloads.     *)
THEOREM ReloadInvariant == Spec => []IInv
<1> QED BY InitInv, NextInv, PTL DEF Spec

(* Type correctness of the task manager and its three threads; it includes *)
(* that no more reloads are started than were signalled.                   *)
THEOREM ReloadTypeCorrect == Spec => []TypeOK
<1>1. IInv => TypeOK
    BY Zenon DEF IInv
<1> QED BY <1>1, ReloadInvariant, PTL

(* No message being captured, queued or sent points to a destroyed capture *)
(* task, unless a shutdown cut the drain of the ring short.                *)
THEOREM MessagesKeepTasks == Spec => []MessageTasksLive
<1>1. IInv => MessageTasksLive
    BY Zenon DEF IInv, MessageInv
<1> QED BY <1>1, ReloadInvariant, PTL

(* The reload protocol is a strict ping-pong between main and the reload   *)
(* thread: exactly one has the turn, and it gets a message its phase       *)
(* expects.                                                                *)
THEOREM ReloadPingPong == Spec => []PingPong
<1>1. IInv => PingPong
  <2> SUFFICES ASSUME IInv PROVE PingPong
      OBVIOUS
  <2>1. TurnInv /\ phase \in {"idle", "survivors", "newTasks", "reclaim"}
      BY Zenon DEF IInv, ProtocolInv, TypeOK, MainTypeOK
  <2>2. CASE phase = "idle"
      BY <2>1, <2>2, Zenon DEF TurnInv, PingPong, Turns, ReloadTurn, MainTurn
  <2>3. CASE phase # "idle"
    <3>1. \E who \in Turns : Turns = {who}
      <4>1. CASE reloadBox
        <5>1. Turns = {"reloadBox"}
            BY <2>1, <4>1, Zenon DEF TurnInv, Turns, ReloadTurn, MainTurn
        <5> QED BY <5>1, Zenon
      <4>2. CASE rlPc \notin {"recv", "exited"}
        <5>1. Turns = {"reload"}
            BY <2>1, <4>2, Zenon DEF TurnInv, Turns, ReloadTurn, MainTurn
        <5> QED BY <5>1, Zenon
      <4>3. CASE mainBox
        <5>1. Turns = {"mainBox"}
            BY <2>1, <4>3, Zenon DEF TurnInv, Turns, ReloadTurn, MainTurn
        <5> QED BY <5>1, Zenon
      <4>4. CASE mainPc = "handle"
        <5>1. Turns = {"main"}
            BY <2>1, <4>4, Zenon DEF TurnInv, Turns, ReloadTurn, MainTurn
        <5> QED BY <5>1, Zenon
      <4> QED BY <2>1, <2>3, <4>1, <4>2, <4>3, <4>4, Zenon DEF TurnInv, ReloadTurn, MainTurn
    <3>2. Turns \cap {"mainBox", "main"} # {} => MainTurn
        BY Zenon DEF Turns, MainTurn
    <3>3. /\ mainTx.type = Expected[1]
          /\ MainTurn => reloadTx.type \in Expected[2]
      <4>1. CASE phase = "survivors"
          BY <2>1, <4>1, Zenon DEF TurnInv, Expected
      <4>2. CASE phase = "newTasks"
          BY <2>1, <4>2, Zenon DEF TurnInv, Expected
      <4>3. CASE phase = "reclaim"
          BY <2>1, <4>3, Zenon DEF TurnInv, Expected
      <4> QED BY <2>1, <2>3, <4>1, <4>2, <4>3, Zenon
    <3> QED BY <2>3, <3>1, <3>2, <3>3, Zenon DEF PingPong
  <2> QED BY <2>2, <2>3, Zenon
<1> QED BY <1>1, ReloadInvariant, PTL

(* Neither thread rewrites its one message while the other may read it.    *)
THEOREM ReloadTxNotInUse == Spec => TxNotInUse
<1> DEFINE Free == /\ mainTx' # mainTx => ~reloadBox /\ rlPc \in {"recv", "exited"}
                   /\ reloadTx' # reloadTx => ~mainBox /\ mainPc # "handle"
<1>1. IInv /\ [Next]_vars => [Free]_vars
  <2> SUFFICES ASSUME IInv, Next PROVE Free
      OBVIOUS
  <2>1. /\ ~ReloadTurn => ~reloadBox /\ rlPc \in {"recv", "exited"}
        /\ ReloadTurn => ~mainBox /\ mainPc # "handle"
        /\ phase = "idle" => ~ReloadTurn
        /\ mainPc = "handle" => ~ReloadTurn
        /\ rlPc \notin {"recv", "exited"} => ReloadTurn
      BY Zenon DEF IInv, ProtocolInv, TurnInv, ReloadTurn, MainTurn
  <2> USE DEF notOutput, notReload, notMain, envVars, heapVars, mainVars, boxVars,
              reloadVars, outVars
  <2>2. CASE \/ \E c \in Configs \cup {Bad} : WriteConfig(c)
             \/ SignalReload \/ Quit
             \/ \E t \in Task : Capture(t)
      BY <2>2, Zenon DEF WriteConfig, SignalReload, Quit, Capture
  <2>3. CASE MainCycle
      BY <2>1, <2>3, Zenon DEF MainCycle
  <2>4. CASE HandleSurvivors \/ HandleNewTasks \/ HandleReclaimed
      BY <2>1, <2>4, Zenon DEF HandleSurvivors, HandleNewTasks, HandleReclaimed
  <2>5. CASE AllocMsg \/ PushMsg \/ StopReload \/ JoinReload \/ Destroy
      BY <2>5, Zenon DEF AllocMsg, PushMsg, StopReload, JoinReload, Destroy
  <2>6. CASE ReloadStep
    <3>1. CASE \/ ReloadExit \/ ReloadRecv \/ ReclaimStart \/ WaitRunning
               \/ WaitUnanswered \/ WaitAnswered \/ WaitStopped
        BY <3>1, Zenon DEF ReloadExit, ReloadRecv, ReclaimStart, WaitRunning, WaitUnanswered,
                    WaitAnswered, WaitStopped
    <3>2. CASE Plan \/ PlanFails \/ Reclaim
        BY <2>1, <3>2, Zenon DEF Plan, PlanFails, Reclaim
    <3>3. CASE \/ \E failed \in SUBSET Fp : Build(failed)
               \/ \E done \in SUBSET Fp : BuildFails(done)
        BY <2>1, <3>3, Zenon DEF Build, BuildFails
    <3> QED BY <2>6, <3>1, <3>2, <3>3, Zenon DEF ReloadStep
  <2>7. CASE OutputStep
      BY <2>7, Zenon DEF OutputStep, OutLoop, OutRequest, OutPop, OutSend, OutEmpty, OutDrained,
                  OutRespond, OutExit
  <2>8. CASE Terminated
      BY <2>8, Zenon DEF Terminated, vars
  <2> QED BY <2>2, <2>3, <2>4, <2>5, <2>6, <2>7, <2>8, Zenon DEF Next, MainStep
<1> QED BY <1>1, ReloadInvariant, PTL DEF Spec, TxNotInUse
=============================================================================
