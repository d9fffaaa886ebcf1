----------------------------- MODULE TaskReload -----------------------------
(***************************************************************************)
(* cpworker's task manager: capturing, the pipeline's output thread and    *)
(* the reload protocol (cpworker/src/task.c, main loop of main.c).         *)
(*                                                                         *)
(* Three threads share the task manager.                                   *)
(*   main    polls the capture tasks of task_mgr.tasks, pushes what they   *)
(*           capture into the ring (pipeline) or sends it itself (rtc),    *)
(*           and between polls runs task_manager_reload_cycle;             *)
(*   reload  parses the new configuration, opens the new capture tasks and *)
(*           destroys the old ones, on requests of main;                   *)
(*   output  pops messages and sends them through the outputs of the       *)
(*           capture task they point to (pipeline only).                   *)
(*                                                                         *)
(* Memory is modelled where the threads could disagree about it: capture   *)
(* tasks, task lists, error lists and configurations are objects that are  *)
(* allocated and freed, and every thread holds pointers to them.  An       *)
(* object is named by the reload cycle that allocates it (cycle 0 is       *)
(* start-up), so a freed object is never mistaken for a new one.           *)
(***************************************************************************)
EXTENDS Integers, Sequences

CONSTANTS Fp,          \* task fingerprints
          NoFp,        \* a task without fingerprint (allowed at start-up)
          Configs,     \* configurations that parse
          Bad,         \* contents of a configuration file that does not parse
          Pipeline,    \* execution model: pipeline (TRUE) or rtc (FALSE)
          RingCap,     \* messages the ring holds
          MaxDeploys,  \* bound: how often a configuration is deployed
          NULL

AnyFp == Fp \cup {NoFp}

(* tasks: the fingerprints of the configured tasks, which the parser keeps *)
(* distinct; buffer: how many messages pipeline.buffer_size_mb admits,     *)
(* 0 for a configuration whose execution model is rtc.                     *)
ConfigType == [tasks : SUBSET AnyFp, buffer : Nat]

Cycles == 0 .. MaxDeploys

(* A capture_task_t, named by the cycle that opens it and its fingerprint. *)
Task == [cycle : Cycles, fp : AnyFp]

(* A struct TaskList: the full set of a cycle or its surviving subset. *)
ListPtr == {"full", "survivors"} \X Cycles

(* Everything reload allocates and frees. *)
Object == {"full", "survivors", "errors", "config"} \X Cycles

ASSUME ReloadAssumption ==
    /\ NoFp \notin Fp
    /\ Configs \subseteq ConfigType
    /\ Bad \notin Configs
    /\ Pipeline \in BOOLEAN
    /\ RingCap \in Nat \ {0}
    /\ MaxDeploys \in Nat
    /\ NULL \notin Task \cup Object

Ptr == Object \cup {NULL}

Message == [type : {"PLAN", "SURVIVORS", "BUILD", "NEW_TASKS", "RECLAIM",
                    "RECLAIMED", "ERROR"},
            tasks : Ptr, errors : Ptr, config : Ptr]

Msg(type, tasks, errors, config) ==
    [type |-> type, tasks |-> tasks, errors |-> errors, config |-> config]

VARIABLES
    \* the process's surroundings
    file,          \* contents of the configuration file
    deploys,       \* how often it was written
    written,       \* written, and the reload not yet signalled
    reloadSignal,  \* reload_signal
    quitSignal,    \* quit_signal
    \* heap
    live,          \* capture tasks that are open
    heap,          \* lists and configurations that are allocated
    listOf,        \* list -> the capture tasks its wrappers point to
    failedOf,      \* cycle -> fingerprints on its error list
    readAt,        \* cycle -> configuration read (Bad: cycle without one)
    \* main thread
    mainPc,
    mainMsg,       \* task of the packet being allocated or pushed
    phase,         \* reload_phase
    cycle,         \* the current reload cycle
    mgr,           \* task_mgr: tasks, errors, config
    allocCap,      \* capacity of the message allocator
    \* mailboxes: TRUE if they point to the other thread's tx message
    mainTx, mainBox, reloadTx, reloadBox,
    \* reload thread
    rlPc,
    rlRunning,     \* reload_thread_running
    ctx,           \* reload_runtime_ctx_t
    drainSkipped,  \* history: a reclaim went on without the ring drained
    \* output thread
    outPc,
    outRunning,    \* output_thread_running
    outMsg,        \* task of the popped message being sent
    drainLeft,     \* pops left in task_manager_output_drain_ring
    drainRequest, drainResponse,
    ring           \* queued messages, oldest first, by their task

envVars == <<file, deploys, written, quitSignal>>
heapVars == <<live, heap, listOf, failedOf, readAt>>
mainVars == <<mainPc, mainMsg, phase, cycle, mgr, allocCap>>
boxVars == <<mainTx, mainBox, reloadTx, reloadBox>>
reloadVars == <<rlPc, ctx, drainSkipped>>
outVars == <<outPc, outMsg, drainLeft, drainResponse>>

(* What no step of the output thread, no step of the reload thread and no  *)
(* step of the reload cycle in the main thread assigns.                    *)
notOutput == <<envVars, reloadSignal, heapVars, mainVars, boxVars, reloadVars,
               rlRunning, outRunning>>
notReload == <<envVars, reloadSignal, mainVars, mainTx, rlRunning, outPc, outMsg,
               drainLeft, outRunning, ring>>
notMain == <<envVars, live, listOf, failedOf, readAt, mainMsg, reloadTx, reloadVars,
             rlRunning, outVars, outRunning, drainRequest, ring>>

vars == <<file, deploys, written, reloadSignal, quitSignal, live, heap, listOf, failedOf,
          readAt, mainPc, mainMsg, phase, cycle, mgr, allocCap, mainTx, mainBox,
          reloadTx, reloadBox, rlPc, rlRunning, ctx, drainSkipped, outPc,
          outRunning, outMsg, drainLeft, drainRequest, drainResponse, ring>>
-----------------------------------------------------------------------------
(* The tasks main polls. *)
Polled == listOf[mgr.tasks]

Fingerprints(list) == {t.fp : t \in listOf[list]} \ {NoFp}

(* Mutant: the comparison of fingerprints is inverted. *)
FindTasksInverted(wanted, list) ==
    {t \in listOf[list] : t.fp # NoFp /\ t.fp \notin wanted}

(* find_task_by_fingerprint: tasks of the list with a wanted fingerprint *)
FindTasks(wanted, list) == {t \in listOf[list] : t.fp # NoFp /\ t.fp \in wanted}

(* The messages whose memory counts against the allocator. *)
InFlight ==
    Len(ring) + (IF outMsg # NULL THEN 1 ELSE 0) + (IF mainPc = "push" THEN 1 ELSE 0)

NoCtx == [current |-> NULL, old |-> NULL, config |-> NULL]

(* task_manager_new; a task whose capturer or output cannot be opened goes *)
(* to the error list.                                                      *)
Init ==
    /\ file \in Configs
    /\ Pipeline <=> (file.buffer > 0)
    /\ deploys = 0
    /\ written = FALSE
    /\ reloadSignal = FALSE
    /\ quitSignal = FALSE
    /\ \E failed \in SUBSET file.tasks :
          /\ failedOf = [c \in Cycles |-> IF c = 0 THEN failed ELSE {}]
          /\ live = [cycle : {0}, fp : file.tasks \ failed]
    /\ listOf = [p \in ListPtr |-> IF p = <<"full", 0>> THEN live ELSE {}]
    /\ heap = {<<"full", 0>>, <<"errors", 0>>, <<"config", 0>>}
    /\ readAt = [c \in Cycles |-> IF c = 0 THEN file ELSE Bad]
    /\ mainPc = "loop"
    /\ mainMsg = NULL
    /\ phase = "idle"
    /\ cycle = 0
    /\ mgr = [tasks |-> <<"full", 0>>, errors |-> <<"errors", 0>>,
              config |-> <<"config", 0>>]
    /\ allocCap = file.buffer
    /\ mainTx = Msg("ERROR", NULL, NULL, NULL)
    /\ reloadTx = Msg("ERROR", NULL, NULL, NULL)
    /\ mainBox = FALSE
    /\ reloadBox = FALSE
    /\ rlPc = "recv"
    /\ rlRunning = TRUE
    /\ ctx = NoCtx
    /\ drainSkipped = FALSE
    /\ outPc = IF Pipeline THEN "loop" ELSE "exited"
    /\ outRunning = Pipeline
    /\ outMsg = NULL
    /\ drainLeft = 0
    /\ drainRequest = FALSE
    /\ drainResponse = FALSE
    /\ ring = <<>>
-----------------------------------------------------------------------------
(* Surroundings. *)

(* The operator or cpdaemon writes the configuration file ... *)
WriteConfig(c) ==
    /\ deploys < MaxDeploys
    /\ ~written
    /\ ~quitSignal
    /\ deploys' = deploys + 1
    /\ file' = c
    /\ written' = TRUE
    /\ UNCHANGED <<heapVars, mainVars, boxVars, reloadVars, outVars, reloadSignal,
                   quitSignal, rlRunning, outRunning, drainRequest, ring>>

(* ... and signals a reload, by SIGHUP or by the control socket's          *)
(* reload_config command.                                                  *)
SignalReload ==
    /\ written
    /\ ~quitSignal
    /\ written' = FALSE
    /\ reloadSignal' = TRUE
    /\ UNCHANGED <<heapVars, mainVars, boxVars, reloadVars, outVars, file, deploys,
                   quitSignal, rlRunning, outRunning, drainRequest, ring>>

(* SIGINT or SIGTERM. *)
Quit ==
    /\ ~quitSignal
    /\ quitSignal' = TRUE
    /\ UNCHANGED <<heapVars, mainVars, boxVars, reloadVars, outVars, file, deploys,
                   written, reloadSignal, rlRunning, outRunning, drainRequest, ring>>
-----------------------------------------------------------------------------
(* Main thread: capturing.  In the rtc model the callback sends the packet *)
(* itself and changes nothing here.                                        *)

Capture(t) ==
    /\ mainPc = "loop"
    /\ ~quitSignal
    /\ Pipeline
    /\ t \in Polled
    /\ mainMsg' = t
    /\ mainPc' = "alloc"
    /\ UNCHANGED <<envVars, heapVars, boxVars, reloadVars, outVars, reloadSignal,
                   phase, cycle, mgr, allocCap, rlRunning, outRunning,
                   drainRequest, ring>>

(* Mutant: the allocator never hands out its last bytes. *)
AllocMsgOffByOne ==
    /\ mainPc = "alloc"
    /\ InFlight + 1 < allocCap
    /\ mainPc' = "push"
    /\ UNCHANGED <<notMain, reloadSignal, heap, phase, cycle, mgr, allocCap,
                   mainTx, mainBox, reloadBox>>

(* The callback yields until the allocator has room for the message ... *)
AllocMsg ==
    /\ mainPc = "alloc"
    /\ InFlight < allocCap
    /\ mainPc' = "push"
    /\ UNCHANGED <<notMain, reloadSignal, heap, phase, cycle, mgr, allocCap,
                   mainTx, mainBox, reloadBox>>

(* ... and then until the ring has. *)
PushMsg ==
    /\ mainPc = "push"
    /\ Len(ring) < RingCap
    /\ ring' = Append(ring, mainMsg)
    /\ mainMsg' = NULL
    /\ mainPc' = "loop"
    /\ UNCHANGED <<envVars, heapVars, boxVars, reloadVars, outVars, reloadSignal,
                   phase, cycle, mgr, allocCap, rlRunning, outRunning,
                   drainRequest>>
-----------------------------------------------------------------------------
(* Main thread: task_manager_reload_cycle. *)

RequestTo(msg, nextPhase) ==
    /\ mainTx' = msg
    /\ reloadBox' = TRUE
    /\ phase' = nextPhase

(* The phase is IDLE, task_mgr.tasks is tasks: try_start_reload. *)
TryStartReload(tasks) ==
    IF reloadSignal
    THEN /\ reloadSignal' = FALSE
         /\ cycle' = cycle + 1
         /\ RequestTo(Msg("PLAN", tasks, NULL, NULL), "survivors")
    ELSE /\ phase' = "idle"
         /\ UNCHANGED <<reloadSignal, cycle, mainTx, reloadBox>>

(* Mutant: a reload is started in any phase. *)
MainCycleAnyPhase ==
    /\ mainPc = "loop"
    /\ ~quitSignal
    /\ IF mainBox
       THEN /\ mainBox' = FALSE
            /\ mainPc' = "handle"
            /\ UNCHANGED <<phase, reloadSignal, cycle, mainTx, reloadBox>>
       ELSE TryStartReload(mgr.tasks) /\ UNCHANGED <<mainBox, mainPc>>
    /\ UNCHANGED <<notMain, heap, mgr, allocCap>>

(* Mutant: the signal is taken before the phase is looked at. *)
MainCycleTakesSignal ==
    /\ mainPc = "loop"
    /\ ~quitSignal
    /\ IF mainBox
       THEN /\ mainBox' = FALSE
            /\ mainPc' = "handle"
            /\ UNCHANGED <<phase, reloadSignal, cycle, mainTx, reloadBox>>
       ELSE /\ IF phase = "idle" THEN TryStartReload(mgr.tasks)
               ELSE /\ reloadSignal' = FALSE
                    /\ UNCHANGED <<phase, cycle, mainTx, reloadBox>>
            /\ UNCHANGED <<mainBox, mainPc>>
    /\ UNCHANGED <<notMain, heap, mgr, allocCap>>

(* main_mbox_recv; without a message only try_start_reload is left to do.  *)
MainCycle ==
    /\ mainPc = "loop"
    /\ ~quitSignal
    /\ IF mainBox
       THEN /\ mainBox' = FALSE
            /\ mainPc' = "handle"
            /\ UNCHANGED <<phase, reloadSignal, cycle, mainTx, reloadBox>>
       ELSE /\ IF phase = "idle" THEN TryStartReload(mgr.tasks)
               ELSE UNCHANGED <<phase, reloadSignal, cycle, mainTx, reloadBox>>
            /\ UNCHANGED <<mainBox, mainPc>>
    /\ UNCHANGED <<notMain, heap, mgr, allocCap>>

(* Mutant: the old list stays the polled one until the new set is there.   *)
HandleSurvivorsKeepsOld ==
    /\ mainPc = "handle"
    /\ phase = "survivors"
    /\ IF reloadTx.type = "SURVIVORS"
       THEN /\ RequestTo(Msg("BUILD", mgr.tasks, NULL, NULL), "newTasks")
            /\ UNCHANGED <<reloadSignal, cycle>>
       ELSE TryStartReload(mgr.tasks)
    /\ mainPc' = "loop"
    /\ UNCHANGED <<notMain, heap, mgr, allocCap, mainBox>>

(* main_handle_survivors: poll the surviving subset only, ask for the      *)
(* new tasks.                                                              *)
HandleSurvivors ==
    /\ mainPc = "handle"
    /\ phase = "survivors"
    /\ IF reloadTx.type = "SURVIVORS"
       THEN /\ mgr' = [mgr EXCEPT !.tasks = reloadTx.tasks]
            /\ RequestTo(Msg("BUILD", mgr.tasks, NULL, NULL), "newTasks")
            /\ UNCHANGED <<reloadSignal, cycle>>
       ELSE /\ TryStartReload(mgr.tasks)
            /\ UNCHANGED mgr
    /\ mainPc' = "loop"
    /\ UNCHANGED <<notMain, heap, allocCap, mainBox>>

(* simple_allocator_resize on commit: only between two pipeline configs.   *)
ResizeTo(config) ==
    IF Pipeline /\ config.buffer > 0 THEN config.buffer ELSE allocCap

(* main_handle_new_tasks: install the new set and ask for the old one to   *)
(* be reclaimed, or on an error poll the restored old list again.          *)
HandleNewTasks ==
    /\ mainPc = "handle"
    /\ phase = "newTasks"
    /\ IF reloadTx.type = "NEW_TASKS"
       THEN /\ heap' = heap \ {mgr.tasks}
            /\ mgr' = [tasks |-> reloadTx.tasks, errors |-> reloadTx.errors,
                       config |-> reloadTx.config]
            /\ allocCap' = ResizeTo(readAt[reloadTx.config[2]])
            /\ RequestTo(Msg("RECLAIM", reloadTx.tasks, mgr.errors, mgr.config), "reclaim")
            /\ UNCHANGED <<reloadSignal, cycle>>
       ELSE /\ IF reloadTx.type = "ERROR" /\ reloadTx.tasks # NULL
               THEN /\ heap' = heap \ {mgr.tasks}
                    /\ mgr' = [mgr EXCEPT !.tasks = reloadTx.tasks]
               ELSE UNCHANGED <<heap, mgr>>
            /\ TryStartReload(mgr'.tasks)
            /\ UNCHANGED allocCap
    /\ mainPc' = "loop"
    /\ UNCHANGED <<notMain, mainBox>>

(* main_handle_reclaimed: done. *)
HandleReclaimed ==
    /\ mainPc = "handle"
    /\ phase = "reclaim"
    /\ TryStartReload(mgr.tasks)
    /\ mainPc' = "loop"
    /\ UNCHANGED <<notMain, heap, mgr, allocCap, mainBox>>
-----------------------------------------------------------------------------
(* Main thread: shutdown. *)

(* task_manager_stop_reload_thread asks the reload thread to stop ... *)
StopReload ==
    /\ mainPc = "loop"
    /\ quitSignal
    /\ rlRunning' = FALSE
    /\ mainPc' = "joinReload"
    /\ UNCHANGED <<envVars, heapVars, boxVars, reloadVars, outVars, reloadSignal,
                   mainMsg, phase, cycle, mgr, allocCap, outRunning,
                   drainRequest, ring>>

(* ... and joins it, then task_manager_stop does so with the output thread *)
JoinReload ==
    /\ mainPc = "joinReload"
    /\ rlPc = "exited"
    /\ outRunning' = FALSE
    /\ mainPc' = "joinOutput"
    /\ UNCHANGED <<envVars, heapVars, boxVars, reloadVars, outVars, reloadSignal,
                   mainMsg, phase, cycle, mgr, allocCap, rlRunning, drainRequest,
                   ring>>

(* ... and task_manager_destroy frees what task_mgr holds. *)
Destroy ==
    /\ mainPc = "joinOutput"
    /\ outPc = "exited"
    /\ live' = live \ Polled
    /\ heap' = heap \ {mgr.tasks, mgr.errors, mgr.config}
    /\ mainPc' = "exited"
    /\ UNCHANGED <<envVars, boxVars, reloadVars, outVars, reloadSignal, listOf,
                   failedOf, readAt, mainMsg, phase, cycle, mgr, allocCap,
                   rlRunning, outRunning, drainRequest, ring>>
-----------------------------------------------------------------------------
(* Reload thread. *)

ReportTo(msg) ==
    /\ reloadTx' = msg
    /\ mainBox' = TRUE

(* reload_ctx_reset_cycle_state *)
CtxReset == [ctx EXCEPT !.current = NULL, !.old = NULL]

(* Mutant: the thread wants its mailbox empty before it exits. *)
ReloadExitPending ==
    /\ rlPc = "recv"
    /\ ~rlRunning
    /\ ~reloadBox
    /\ rlPc' = "exited"
    /\ heap' = heap \ {ctx.config}
    /\ UNCHANGED <<notReload, live, listOf, failedOf, readAt, mainBox, reloadTx, reloadBox,
                   ctx, drainSkipped, drainResponse, drainRequest>>

(* The head of task_manager_reload_loop: stop, or take the next request.   *)
ReloadExit ==
    /\ rlPc = "recv"
    /\ ~rlRunning
    /\ rlPc' = "exited"
    /\ heap' = heap \ {ctx.config}
    /\ UNCHANGED <<notReload, live, listOf, failedOf, readAt, mainBox, reloadTx,
                   reloadBox, ctx, drainSkipped, drainResponse, drainRequest>>

ReloadRecv ==
    /\ rlPc = "recv"
    /\ rlRunning
    /\ reloadBox
    /\ reloadBox' = FALSE
    /\ rlPc' = CASE mainTx.type = "PLAN" -> "plan"
                 [] mainTx.type = "BUILD" -> "build"
                 [] mainTx.type = "RECLAIM" -> "reclaim"
    /\ UNCHANGED <<notReload, heapVars, mainBox, reloadTx, ctx, drainSkipped,
                   drainResponse, drainRequest>>

(* reload_do_plan on a file that parses and validates.                     *)
Plan ==
    /\ rlPc = "plan"
    /\ file # Bad
    /\ NoFp \notin file.tasks
    /\ readAt' = [readAt EXCEPT ![cycle] = file]
    /\ heap' = heap \cup {<<"config", cycle>>, <<"survivors", cycle>>}
    /\ listOf' = [listOf EXCEPT ![<<"survivors", cycle>>] =
                     FindTasks(file.tasks, mainTx.tasks)]
    /\ ctx' = [ctx EXCEPT !.current = mainTx.tasks, !.config = <<"config", cycle>>]
    /\ ReportTo(Msg("SURVIVORS", <<"survivors", cycle>>, NULL, NULL))
    /\ rlPc' = "recv"
    /\ UNCHANGED <<notReload, live, failedOf, reloadBox, drainSkipped,
                   drainResponse, drainRequest>>

(* reload_do_plan when the file does not parse or validate, or memory runs *)
(* out: nothing is kept of the attempt.                                    *)
PlanFails ==
    /\ rlPc = "plan"
    /\ ReportTo(Msg("ERROR", NULL, NULL, NULL))
    /\ readAt' = [readAt EXCEPT ![cycle] = file]
    /\ ctx' = CtxReset
    /\ rlPc' = "recv"
    /\ UNCHANGED <<notReload, live, heap, listOf, failedOf, reloadBox,
                   drainSkipped, drainResponse, drainRequest>>

(* build_full_task_set, after the tasks named in done were processed, of   *)
(* which the ones in failed could not be opened.                           *)
Reused(done) == FindTasks(done, ctx.current)
Opened(done, failed) ==
    [cycle : {cycle}, fp : done \ (failed \cup Fingerprints(ctx.current))]

Build(failed) ==
    LET wanted == readAt[ctx.config[2]].tasks IN
    /\ rlPc = "build"
    /\ failed \subseteq wanted \ Fingerprints(ctx.current)
    /\ live' = live \cup Opened(wanted, failed)
    /\ heap' = heap \cup {<<"full", cycle>>, <<"errors", cycle>>}
    /\ listOf' = [listOf EXCEPT ![<<"full", cycle>>] =
                     Reused(wanted) \cup Opened(wanted, failed)]
    /\ failedOf' = [failedOf EXCEPT ![cycle] = failed]
    /\ ctx' = [ctx EXCEPT !.old = mainTx.tasks, !.config = NULL]
    /\ ReportTo(Msg("NEW_TASKS", <<"full", cycle>>, <<"errors", cycle>>, ctx.config))
    /\ rlPc' = "recv"
    /\ UNCHANGED <<notReload, readAt, reloadBox, drainSkipped, drainResponse,
                   drainRequest>>

(* Mutant: the error path destroys every task of the unfinished set. *)
BuildFailsDestroysAll(done) ==
    /\ rlPc = "build"
    /\ done \subseteq readAt[ctx.config[2]].tasks
    /\ live' = live \ Reused(done)
    /\ heap' = heap \ {ctx.config}
    /\ ctx' = [CtxReset EXCEPT !.config = NULL]
    /\ ReportTo(Msg("ERROR", mainTx.tasks, NULL, NULL))
    /\ rlPc' = "recv"
    /\ UNCHANGED <<notReload, listOf, failedOf, readAt, reloadBox, drainSkipped,
                   drainResponse, drainRequest>>

(* Memory runs out after the tasks in done: the ones this build opened are *)
(* destroyed, the reused ones are not, and main is told to restore the old *)
(* list.                                                                   *)
BuildFails(done) ==
    /\ rlPc = "build"
    /\ done \subseteq readAt[ctx.config[2]].tasks
    /\ LET built == Reused(done) \cup Opened(done, {}) IN
       live' = (live \cup Opened(done, {}))
                  \ {t \in built : t.fp \notin Fingerprints(ctx.current)}
    /\ heap' = heap \ {ctx.config}
    /\ ctx' = [CtxReset EXCEPT !.config = NULL]
    /\ ReportTo(Msg("ERROR", mainTx.tasks, NULL, NULL))
    /\ rlPc' = "recv"
    /\ UNCHANGED <<notReload, listOf, failedOf, readAt, reloadBox, drainSkipped,
                   drainResponse, drainRequest>>

(* reload_do_reclaim: ask the output thread to drain the ring ... *)
ReclaimStart ==
    /\ rlPc = "reclaim"
    /\ IF Pipeline
       THEN /\ drainRequest' = TRUE
            /\ rlPc' = "wait"
       ELSE /\ rlPc' = "free"
            /\ UNCHANGED drainRequest
    /\ UNCHANGED <<notReload, heapVars, mainBox, reloadTx, reloadBox, ctx,
                   drainSkipped, drainResponse>>

(* ... wait_output_drain_ring_response: while the thread is to run ...     *)
WaitRunning ==
    /\ rlPc = "wait"
    /\ rlRunning
    /\ rlPc' = "check"
    /\ UNCHANGED <<notReload, heapVars, mainBox, reloadTx, reloadBox, ctx,
                   drainSkipped, drainResponse, drainRequest>>

WaitUnanswered ==
    /\ rlPc = "check"
    /\ ~drainResponse
    /\ rlPc' = "wait"
    /\ UNCHANGED <<notReload, heapVars, mainBox, reloadTx, reloadBox, ctx,
                   drainSkipped, drainResponse, drainRequest>>

(* Mutant: the answer is not reset for the next reload. *)
WaitAnsweredKeepsAnswer ==
    /\ rlPc = "check"
    /\ drainResponse
    /\ rlPc' = "free"
    /\ UNCHANGED <<notReload, heapVars, mainBox, reloadTx, reloadBox, ctx,
                   drainSkipped, drainResponse, drainRequest>>

(* ... the output thread's answer ends the wait and is taken back ...      *)
WaitAnswered ==
    /\ rlPc = "check"
    /\ drainResponse
    /\ drainResponse' = FALSE
    /\ rlPc' = "free"
    /\ UNCHANGED <<notReload, heapVars, mainBox, reloadTx, reloadBox, ctx,
                   drainSkipped, drainRequest>>

(* ... and a thread that has been told to stop does not wait for it ...    *)
WaitStopped ==
    /\ rlPc = "wait"
    /\ ~rlRunning
    /\ drainSkipped' = TRUE
    /\ rlPc' = "free"
    /\ UNCHANGED <<notReload, heapVars, mainBox, reloadTx, reloadBox, ctx,
                   drainResponse, drainRequest>>

(* Mutant: nothing is ever reclaimed. *)
UnusedNone == {}

(* ... and reclaim_old_resources destroys what the new set does not use.   *)
Unused == {t \in listOf[ctx.old] : t.fp \notin Fingerprints(mainTx.tasks)}

Reclaim ==
    /\ rlPc = "free"
    /\ live' = live \ Unused
    /\ heap' = heap \ {ctx.old, mainTx.errors, mainTx.config}
    /\ ctx' = CtxReset
    /\ ReportTo(Msg("RECLAIMED", NULL, NULL, NULL))
    /\ rlPc' = "recv"
    /\ UNCHANGED <<notReload, listOf, failedOf, readAt, reloadBox, drainSkipped,
                   drainResponse, drainRequest>>
-----------------------------------------------------------------------------
(* Output thread: task_manager_output_loop. *)

(* Mutant: no last drain. *)
OutLoopNoLastDrain ==
    /\ outPc = "loop"
    /\ outPc' = IF outRunning THEN "request" ELSE "exited"
    /\ UNCHANGED <<notOutput, outMsg, drainLeft, drainResponse, drainRequest, ring>>

(* The head of the loop: stop with a last drain of the ring, start the     *)
(* drain the reload thread asks for, or go on to the next message.         *)
OutLoop ==
    /\ outPc = "loop"
    /\ IF ~outRunning
       THEN outPc' = "lastDrain" /\ drainLeft' = Len(ring)
       ELSE outPc' = "request" /\ UNCHANGED drainLeft
    /\ UNCHANGED <<notOutput, outMsg, drainResponse, drainRequest, ring>>

OutRequest ==
    /\ outPc = "request"
    /\ IF drainRequest
       THEN outPc' = "drain" /\ drainLeft' = Len(ring)
       ELSE outPc' = "pop" /\ UNCHANGED drainLeft
    /\ UNCHANGED <<notOutput, outMsg, drainResponse, drainRequest, ring>>

(* Take a message, in a drain or as the one of this round.                 *)
OutPop ==
    /\ \/ outPc = "pop"
       \/ outPc \in {"drain", "lastDrain"} /\ drainLeft > 0
    /\ outMsg = NULL
    /\ ring # <<>>
    /\ outMsg' = Head(ring)
    /\ ring' = Tail(ring)
    /\ UNCHANGED <<notOutput, outPc, drainLeft, drainResponse, drainRequest>>

(* Mutant: every message counts as one of the drain. *)
OutSendCountsAll ==
    /\ outMsg # NULL
    /\ outMsg' = NULL
    /\ outPc' = IF outPc = "pop" THEN "loop" ELSE outPc
    /\ drainLeft' = drainLeft - 1
    /\ UNCHANGED <<notOutput, drainResponse, drainRequest, ring>>

(* Send it through the outputs of its task and free it.                    *)
OutSend ==
    /\ outMsg # NULL
    /\ outMsg' = NULL
    /\ IF outPc = "pop"
       THEN outPc' = "loop" /\ UNCHANGED drainLeft
       ELSE drainLeft' = drainLeft - 1 /\ UNCHANGED outPc
    /\ UNCHANGED <<notOutput, drainResponse, drainRequest, ring>>

OutEmpty ==
    /\ outPc = "pop"
    /\ outMsg = NULL
    /\ ring = <<>>
    /\ outPc' = "loop"
    /\ UNCHANGED <<notOutput, outMsg, drainLeft, drainResponse, drainRequest, ring>>

(* The requested drain is done: the request is cleared first ...           *)
OutDrained ==
    /\ outPc = "drain"
    /\ drainLeft = 0
    /\ outMsg = NULL
    /\ drainRequest' = FALSE
    /\ outPc' = "respond"
    /\ UNCHANGED <<notOutput, outMsg, drainLeft, drainResponse, ring>>

(* Mutant: the request is cleared once more instead of being answered. *)
OutRespondMissing ==
    /\ outPc = "respond"
    /\ drainRequest' = FALSE
    /\ outPc' = "pop"
    /\ UNCHANGED <<notOutput, outMsg, drainLeft, drainResponse, ring>>

(* ... and then answered. *)
OutRespond ==
    /\ outPc = "respond"
    /\ drainResponse' = TRUE
    /\ outPc' = "pop"
    /\ UNCHANGED <<notOutput, outMsg, drainLeft, drainRequest, ring>>

OutExit ==
    /\ outPc = "lastDrain"
    /\ drainLeft = 0
    /\ outMsg = NULL
    /\ outPc' = "exited"
    /\ UNCHANGED <<notOutput, outMsg, drainLeft, drainResponse, drainRequest, ring>>
-----------------------------------------------------------------------------
MainStep ==
    \/ AllocMsg \/ PushMsg
    \/ HandleSurvivors \/ HandleNewTasks \/ HandleReclaimed
    \/ StopReload \/ JoinReload \/ Destroy

ReloadStep ==
    \/ ReloadExit \/ ReloadRecv
    \/ Plan \/ PlanFails
    \/ \E failed \in SUBSET Fp : Build(failed)
    \/ \E done \in SUBSET Fp : BuildFails(done)
    \/ ReclaimStart \/ WaitRunning \/ WaitUnanswered \/ WaitAnswered \/ WaitStopped
    \/ Reclaim

OutputStep ==
    \/ OutLoop \/ OutRequest \/ OutPop \/ OutSend \/ OutEmpty
    \/ OutDrained \/ OutRespond \/ OutExit

Terminated == mainPc = "exited" /\ UNCHANGED vars

Next ==
    \/ \E c \in Configs \cup {Bad} : WriteConfig(c)
    \/ SignalReload
    \/ Quit
    \/ \E t \in Task : Capture(t)
    \/ MainCycle
    \/ MainStep
    \/ ReloadStep
    \/ OutputStep
    \/ Terminated

Spec == Init /\ [][Next]_vars

(* Every thread keeps running.  The main loop runs the reload cycle at     *)
(* least once a second however busy the capture is (main.c), hence strong  *)
(* fairness for it; packets need not arrive.                               *)
Fairness ==
    /\ WF_vars(MainStep)
    /\ SF_vars(MainCycle)
    /\ WF_vars(ReloadStep)
    /\ WF_vars(OutputStep)

FairSpec == Spec /\ Fairness
-----------------------------------------------------------------------------
(* Every reload cycle was signalled for, and every signal comes after a    *)
(* deployment.                                                             *)
EnvTypeOK ==
    /\ file \in Configs \cup {Bad}
    /\ deploys \in 0 .. MaxDeploys
    /\ written \in BOOLEAN
    /\ reloadSignal \in BOOLEAN
    /\ quitSignal \in BOOLEAN
    /\ cycle \in Cycles
    /\ cycle + (IF reloadSignal THEN 1 ELSE 0) + (IF written THEN 1 ELSE 0) <= deploys

HeapTypeOK ==
    /\ live \subseteq Task
    /\ heap \subseteq Object
    /\ listOf \in [ListPtr -> SUBSET Task]
    /\ failedOf \in [Cycles -> SUBSET AnyFp]
    /\ readAt \in [Cycles -> Configs \cup {Bad}]

MainTypeOK ==
    /\ mainPc \in {"loop", "alloc", "push", "handle", "joinReload", "joinOutput", "exited"}
    /\ mainMsg \in Task \cup {NULL}
    /\ phase \in {"idle", "survivors", "newTasks", "reclaim"}
    /\ mgr \in [tasks : ListPtr, errors : Object, config : Object]
    /\ allocCap \in Nat

BoxTypeOK ==
    /\ mainTx \in Message
    /\ reloadTx \in Message
    /\ mainBox \in BOOLEAN
    /\ reloadBox \in BOOLEAN

ReloadTypeOK ==
    /\ rlPc \in {"recv", "plan", "build", "reclaim", "wait", "check", "free",
                "exited"}
    /\ rlRunning \in BOOLEAN
    /\ ctx \in [current : Ptr, old : Ptr, config : Ptr]
    /\ drainSkipped \in BOOLEAN

OutTypeOK ==
    /\ outPc \in {"loop", "request", "pop", "drain", "respond", "lastDrain", "exited"}
    /\ outRunning \in BOOLEAN
    /\ outMsg \in Task \cup {NULL}
    /\ drainLeft \in 0 .. RingCap
    /\ drainRequest \in BOOLEAN
    /\ drainResponse \in BOOLEAN
    /\ ring \in Seq(Task)
    /\ Len(ring) <= RingCap

(* Types: pointers point to the kind of object their users expect, a drain *)
(* counts no more messages than the ring holds, and no more reloads are    *)
(* started than were signalled.                                            *)
TypeOK ==
    /\ EnvTypeOK
    /\ HeapTypeOK
    /\ MainTypeOK
    /\ BoxTypeOK
    /\ ReloadTypeOK
    /\ OutTypeOK

(* The capture tasks that messages point to: the one main is capturing,    *)
(* the queued ones and the one being sent.                                 *)
MessageTasks == ({mainMsg, outMsg} \cup {ring[i] : i \in 1 .. Len(ring)}) \ {NULL}

(* No message or capture callback ever points to a capture task that has   *)
(* been destroyed: the ring is drained before old tasks are reclaimed.     *)
(* The one exception is a shutdown that ends the wait for the drain.       *)
MessageTasksLive == drainSkipped \/ MessageTasks \subseteq live

(* The same without the exception, as the reload protocol's description    *)
(* and the reload thread's log message have it.                            *)
DrainedBeforeReclaim == MessageTasks \subseteq live

Held(msg) == {msg.tasks, msg.errors, msg.config}

(* Every pointer a thread may still follow points to allocated memory: the *)
(* task manager's own, the reload context's and those of a message that    *)
(* was not handled yet.  What main polls is open.                          *)
PointersValid ==
    /\ mainPc # "exited" =>
          /\ {mgr.tasks, mgr.errors, mgr.config} \subseteq heap
          /\ Polled \subseteq live
    /\ rlPc # "exited" => {ctx.current, ctx.old, ctx.config} \subseteq heap \cup {NULL}
    /\ (mainBox /\ mainPc # "exited") \/ mainPc = "handle" =>
          Held(reloadTx) \subseteq heap \cup {NULL}
    /\ (reloadBox /\ rlPc # "exited") \/ rlPc \notin {"recv", "exited"} =>
          Held(mainTx) \subseteq heap \cup {NULL}
    /\ rlPc = "free" => Unused \subseteq live \ Polled

(* Between reloads task_mgr is exactly one configuration: every open task  *)
(* is polled, nothing else is allocated, the polled tasks are the          *)
(* configured ones except those on the error list, and the message buffer  *)
(* has the configured size.  An aborted reload leaves the old one.         *)
Committed ==
    LET c == mgr.config[2]
        config == readAt[c]
    IN  phase = "idle" /\ mainPc # "exited" =>
          /\ live = Polled
          /\ heap = {mgr.tasks, mgr.errors, mgr.config}
          /\ mgr.tasks[2] = c /\ mgr.errors[2] = c
          /\ {t.fp : t \in Polled} = config.tasks \ failedOf[c]
          /\ \A t, u \in Polled : t.fp = u.fp => t = u
          /\ Pipeline /\ config.buffer > 0 => allocCap = config.buffer

(* Where a reload message is. *)
Turns ==
    {who \in {"reloadBox", "reload", "mainBox", "main"} :
        \/ who = "reloadBox" /\ reloadBox
        \/ who = "reload" /\ rlPc \notin {"recv", "exited"}
        \/ who = "mainBox" /\ mainBox
        \/ who = "main" /\ mainPc = "handle"}

Expected ==
    CASE phase = "survivors" -> <<"PLAN", {"SURVIVORS", "ERROR"}>>
      [] phase = "newTasks" -> <<"BUILD", {"NEW_TASKS", "ERROR"}>>
      [] phase = "reclaim" -> <<"RECLAIM", {"RECLAIMED"}>>

(* The two threads take turns: outside a reload no message is under way,   *)
(* and in a reload exactly one of them has the turn, so no handler is      *)
(* reached in a phase that does not expect its message.                    *)
PingPong ==
    IF phase = "idle" THEN Turns = {}
    ELSE /\ \E who \in Turns : Turns = {who}
         /\ mainTx.type = Expected[1]
         /\ Turns \cap {"mainBox", "main"} # {} => reloadTx.type \in Expected[2]

(* A thread never rewrites its one message while the other still reads it. *)
TxNotInUse ==
    [][ /\ mainTx' # mainTx => ~reloadBox /\ rlPc \in {"recv", "exited"}
        /\ reloadTx' # reloadTx => ~mainBox /\ mainPc # "handle" ]_vars

(* Old stops before new starts: while a capture task of a newer cycle is   *)
(* open, main polls no older task that this cycle's configuration drops.   *)
OldStopsFirst ==
    \A t \in Polled, u \in live :
        u.cycle > t.cycle => t.fp \in readAt[u.cycle].tasks

(* A task that the new configuration keeps is polled without a break.      *)
ReuseContinues ==
    [][ \A t \in Polled \ Polled' : t.fp = NoFp \/ t.fp \notin readAt[cycle].tasks ]_vars

(* When the process exits, all captured messages have been sent, and if no *)
(* reload was under way every task has been closed, which flushes outputs. *)
ExitDrained ==
    mainPc = "exited" =>
        /\ ring = <<>> /\ outMsg = NULL
        /\ phase = "idle" => live = {} /\ heap = {}

(* A reload ends. *)
ReloadCompletes == (phase # "idle") ~> (phase = "idle" \/ quitSignal)

(* The last configuration deployed and signalled is eventually read, also  *)
(* when this happens in the middle of a reload.                            *)
LastDeployRead ==
    <>[](quitSignal \/ written \/ (readAt[cycle] = file /\ ~reloadSignal))

(* A capture callback does not spin for ever on the allocator or the ring. *)
CaptureProceeds == (mainPc = "alloc") ~> (mainPc = "loop")

(* The process stops when told to, whatever its threads are doing.         *)
QuitCompletes == quitSignal ~> (mainPc = "exited")
=============================================================================
