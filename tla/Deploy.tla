------------------------------- MODULE Deploy -------------------------------
(***************************************************************************)
(* From strategies to running tasks: cpdaemon builds the tasks and writes  *)
(* them, cpworker reads the file, creates the tasks that are new, keeps    *)
(* the ones it already runs and destroys the others                        *)
(* (build_full_task_set and reclaim_old_resources in cpworker/src/task.c). *)
(*                                                                         *)
(* Every call that can fail may fail.  The threads of a reload, and when   *)
(* each list is used, are the subject of TaskReload.                       *)
(***************************************************************************)
EXTENDS TaskBuilder, TaskConfig, TaskResources, Functions

CONSTANTS
    Rounds,         \* the lists of strategies to load first, second, ...
    BufferSizeMb,   \* the fixed size of a capture buffer
    WorkerCfg,      \* [logLevel, control, executionModel, cpuAffinity, minBufferMb, memLimitMb] of cpdaemon
    Compiles(_)     \* whether a request pattern is one: CustomMatcher of module ReqPattern

(***************************************************************************)
(* What WorkerConfig.Validate asks of the configuration of cpdaemon; it    *)
(* does not ask for the smallest pipeline buffer to be a buffer.           *)
(***************************************************************************)
Validate(cfg) ==
    /\ cfg.logLevel \in {"DEBUG", "INFO", "WARN", "ERROR"}
    /\ cfg.control.type = "unix"
    /\ cfg.control.unix.path # ""
    /\ cfg.executionModel \in {"rtc", "pipeline"}
    /\ BufferSizeMb > 0

ASSUME WorkerCfgAssumption == Validate(WorkerCfg) /\ WorkerCfg.minBufferMb > 0

VARIABLES
    phase,      \* "idle" or "loading"
    round,      \* number of loads tried since the worker was started
    loading,    \* [asked, config, errors] being loaded
    loaded,     \* [asked, config, errors] that the running tasks come from
    refused,    \* whether the tasks of a file were refused
    live,       \* the running tasks
    fresh,      \* the tasks created in this load
    todo,       \* tasks of the file still to be made; the first is being made
    at,         \* [part, step] of the creation
    held,       \* resources held: <<fingerprint, part, resource>>
    ns          \* network namespace of the thread that creates tasks

vars == <<phase, round, loading, loaded, refused, live, fresh, todo, at, held, ns>>

NoConfig == [tasks |-> <<>>, logLevel |-> "", cpuAffinity |-> "", pipelineMb |-> 0, control |-> ""]

Nothing == [asked |-> <<>>, config |-> NoConfig, errors |-> {}]

Start == [part |-> 1, step |-> 1]

Init ==
    /\ phase = "idle"
    /\ round = 0
    /\ loading = Nothing
    /\ loaded = Nothing
    /\ refused = FALSE
    /\ live = {}
    /\ fresh = {}
    /\ todo = <<>>
    /\ at = Start
    /\ held = {}
    /\ ns = "own"

-----------------------------------------------------------------------------
(***************************************************************************)
(* The file that cpdaemon writes: the pipeline gets what the capture       *)
(* buffers of the tasks leave of the memory, and never less than the       *)
(* minimum.                                                                *)
(***************************************************************************)
RingCfgMb(tasks) ==
    SumFunction([i \in DOMAIN tasks |-> tasks[i].capturer.libpcap.buffer_size_mb])

PipelineMb(tasks) ==
    LET left == WorkerCfg.memLimitMb - RingCfgMb(tasks)
    IN IF left > WorkerCfg.minBufferMb THEN left ELSE WorkerCfg.minBufferMb

NewWorkerConfig(tasks) ==
    Object([log_level |-> WorkerCfg.logLevel, control |-> WorkerCfg.control,
            execution_model |-> WorkerCfg.executionModel, tasks |-> tasks,
            pipeline |-> If(WorkerCfg.executionModel = "pipeline",
                            [buffer_size_mb |-> PipelineMb(tasks)]),
            cpu_affinity |-> If(WorkerCfg.cpuAffinity # "", WorkerCfg.cpuAffinity)])

(***************************************************************************)
(* The filter of a task excludes the output hosts of all tasks of the      *)
(* configuration that it is created from.                                  *)
(***************************************************************************)
Filtered(task, config) ==
    [fingerprint |-> task.fingerprint, reqPattern |-> task.reqPattern,
     capturer |-> task.capturer, outputs |-> task.outputs,
     excluded |-> IF task.capturer.notFilter THEN {} ELSE OutputHosts(config)]

Runs(task) == \E t \in live : t.fingerprint = task.fingerprint

Idle ==
    /\ phase' = "idle"
    /\ loading' = Nothing
    /\ fresh' = {}
    /\ todo' = <<>>
    /\ at' = Start

(***************************************************************************)
(* Stop the worker: task_manager_destroy.                                  *)
(***************************************************************************)
StopWorker ==
    /\ Idle
    /\ live' = {}
    /\ held' = DestroyAll(held, live)
    /\ loaded' = Nothing
    /\ round' = 0
    /\ UNCHANGED <<refused, ns>>

(***************************************************************************)
(* The worker reads the file.  One that cannot be opened or read (it is    *)
(* gone, is no regular file, is empty or too large, there is no memory for *)
(* it), or is refused, changes nothing.                                    *)
(***************************************************************************)
ReadFails(obj) ==
    /\ refused' = (refused \/ ~ConfigOk(obj))
    /\ UNCHANGED <<phase, loading, todo>>

Plan(asked, obj) ==
    LET config == ParseConfig(obj)
    IN /\ ConfigOk(obj)
       /\ phase' = "loading"
       /\ loading' = [asked |-> asked, config |-> config, errors |-> {}]
       /\ todo' = [i \in DOMAIN config.tasks |-> Filtered(config.tasks[i], config.tasks)]
       /\ UNCHANGED refused

ReadFile(asked, obj) ==
    /\ round' = round + 1
    /\ ReadFails(obj) \/ Plan(asked, obj)
    /\ UNCHANGED <<loaded, live, fresh, at, held, ns>>

(***************************************************************************)
(* Load new strategies.  No task at all stops the worker.                  *)
(***************************************************************************)
Load ==
    /\ phase = "idle"
    /\ round < Len(Rounds)
    /\ \E asked \in Rounds[round + 1] :
          LET objs == Build(asked, BufferSizeMb)
          IN IF objs = <<>> THEN StopWorker ELSE ReadFile(asked, NewWorkerConfig(objs))

Stop == phase = "idle" /\ round > 0 /\ StopWorker

-----------------------------------------------------------------------------
Task == Head(todo)

Making == phase = "loading" /\ todo # <<>> /\ ~Runs(Task)

Part1 == Parts(Task)[at.part]

Step1 == Part1.steps[at.step]

Made == todo # <<>> /\ at.part > Len(Parts(Task))

Advance ==
    IF at.step < Len(Part1.steps) THEN [at EXCEPT !.step = @ + 1]
    ELSE [part |-> at.part + 1, step |-> 1]

(***************************************************************************)
(* What decides a step that is not left to chance.                         *)
(***************************************************************************)
Possible ==
    CASE Step1.do = "pattern" ->
             Task.reqPattern.type = "custom" => Compiles(Task.reqPattern.pattern)
      [] Step1.do = "address" -> Task.outputs[at.part - 3].config.host \in Ipv4Addresses
      [] OTHER -> TRUE

Infallible == Step1.do \in {"done", "uuid"} \/ (Step1.do = "address" /\ Possible)

(***************************************************************************)
(* A task of the file that already runs is kept as it is.                  *)
(***************************************************************************)
ReuseTask ==
    /\ phase = "loading"
    /\ todo # <<>>
    /\ Runs(Task)
    /\ todo' = Tail(todo)
    /\ UNCHANGED <<phase, round, loading, loaded, refused, live, fresh, at, held, ns>>

StepSucceeds ==
    /\ Making
    /\ ~Made
    /\ Possible
    /\ held' = (held \cup Of(Task, at.part, Step1.take)) \ Of(Task, at.part, Step1.drop)
    /\ ns' = CASE Step1.do = "enter" -> "target" [] Step1.do = "leave" -> "own" [] OTHER -> ns
    /\ at' = Advance
    /\ UNCHANGED <<phase, round, loading, loaded, refused, live, fresh, todo>>

(***************************************************************************)
(* The error path: undo the part, return to the own namespace, destroy the *)
(* parts before it, record the error and go on with the next task.         *)
(***************************************************************************)
StepFails ==
    /\ Making
    /\ ~Made
    /\ ~Infallible
    /\ Step1.do # "leave"
    /\ held' = Destroy(held \ Of(Task, at.part, Step1.undo), Task, 1 .. (at.part - 1))
    /\ ns' = "own"
    /\ loading' = [loading EXCEPT !.errors = @ \cup {Task.fingerprint}]
    /\ todo' = Tail(todo)
    /\ at' = Start
    /\ UNCHANGED <<phase, round, loaded, refused, live, fresh>>

(***************************************************************************)
(* The namespace cannot be left: the process exits.                        *)
(***************************************************************************)
Exit ==
    /\ Making
    /\ ~Made
    /\ ns = "target"
    /\ Idle
    /\ live' = {}
    /\ held' = {}
    /\ loaded' = Nothing
    /\ round' = 0
    /\ ns' = "own"
    /\ UNCHANGED refused

AddTask ==
    /\ Making
    /\ Made
    /\ fresh' = fresh \cup {Task}
    /\ todo' = Tail(todo)
    /\ at' = Start
    /\ UNCHANGED <<phase, round, loading, loaded, refused, live, held, ns>>

(***************************************************************************)
(* No memory for an entry of the lists, of a task that is kept, was made   *)
(* or failed: the tasks made in this load are destroyed.  A worker that is *)
(* starting exits.                                                         *)
(***************************************************************************)
Abort ==
    /\ phase = "loading"
    /\ at = Start \/ Made
    /\ Idle
    /\ held' = DestroyAll(held, fresh \cup (IF at = Start THEN {} ELSE {Task}))
    /\ round' = IF loaded = Nothing THEN 0 ELSE round
    /\ UNCHANGED <<loaded, refused, live, ns>>

Survivors ==
    {t \in live : \E i \in DOMAIN loading.config.tasks :
                       loading.config.tasks[i].fingerprint = t.fingerprint}

Finish ==
    /\ phase = "loading"
    /\ todo = <<>>
    /\ Idle
    /\ live' = Survivors \cup fresh
    /\ loaded' = loading
    /\ held' = DestroyAll(held, live \ Survivors)
    /\ UNCHANGED <<round, refused, ns>>

Next == Load \/ Stop \/ ReuseTask \/ StepSucceeds \/ StepFails \/ Exit \/ AddTask \/ Abort \/ Finish

Spec == Init /\ [][Next]_vars

-----------------------------------------------------------------------------
Owned(tasks) == UNION {UNION {Of(t, p, Parts(t)[p].destroy) : p \in DOMAIN Parts(t)} : t \in tasks}

(***************************************************************************)
(* Whatever call of whatever constructor fails: between two tasks, what is *)
(* held is what the tasks that exist hold, and the thread is in its own    *)
(* namespace; and an output is never created in another namespace.         *)
(***************************************************************************)
NoLeak ==
    /\ at = Start => held = Owned(live \cup fresh) /\ ns = "own"
    /\ at.part > 2 => ns = "own"

(***************************************************************************)
(* When two running tasks capture one interface, the filter of each, if it *)
(* filters output hosts, excludes the output hosts of both, so that none   *)
(* captures what the other one sends (the test of                          *)
(* bpf_filter_exclude_task_output_hosts in tests/unit/misc.c).             *)
(***************************************************************************)
OutputHostsExcluded ==
    phase = "idle" =>
        \A t, u \in live :
            /\ ~t.capturer.notFilter
            /\ t.capturer.interface = u.capturer.interface
            /\ t.capturer.netns = u.capturer.netns
            => UNION {ForwardHosts(u.outputs[i]) : i \in DOMAIN u.outputs} \subseteq t.excluded
=============================================================================
