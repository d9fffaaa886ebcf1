---------------------------- MODULE WorkerManager ----------------------------
(***************************************************************************)
(* cpdaemon's worker manager (cpdaemon/pkg/cpm/worker_mgr.go): it creates, *)
(* updates, stops and kills the one worker a strategy asks for, and asks   *)
(* the memory fuse before a capture ring is allocated.                     *)
(*                                                                         *)
(* A call that returns an error is a set of outcomes [host, err].  The     *)
(* client of the control socket is not a field: it is created with the     *)
(* worker and closed with it, so it is there exactly when the worker is.   *)
(***************************************************************************)
EXTENDS WorkerProcess, MemFuse

CONSTANTS
    Strategies,     \* name -> [tasks, instances, limited, sizable]
    Readings        \* values of the available memory

ASSUME StrategiesAssumption ==
    \A s \in DOMAIN Strategies :
        Strategies[s].tasks \subseteq Tasks /\ Strategies[s].instances \subseteq Tasks

(***************************************************************************)
(* Tasks of a strategy: its fixed ones and one per active KVM instance.    *)
(***************************************************************************)
Items(strat, active) ==
    Strategies[strat].tasks \cup (Strategies[strat].instances \cap active)

HasInstances(strat) == Strategies[strat].instances # {}

Outcome(h, err) == [host |-> h, err |-> err]

Failed(hosts) == {Outcome(h, "failed") : h \in hosts}

IsAlive(h) == h.worker # NoWorker /\ WorkerAlive(h, h.worker)

ResetManager(h) == [h EXCEPT !.worker = NoWorker, !.current = {}]

StopWorkerForgets(h) == {ResetManager(h)}

StopWorker(h) ==
    IF h.worker = NoWorker THEN {h} ELSE {ResetManager(g) : g \in WorkerStop(h, h.worker)}

KillWorker(h) ==
    IF h.worker = NoWorker THEN {h} ELSE {ResetManager(g) : g \in WorkerKill(h, h.worker)}

(***************************************************************************)
(* buildTasks: a strategy that has items but cannot be sized is an error;  *)
(* items whose container or interface is not found only give warnings.     *)
(***************************************************************************)
BuildTasks(h, strat, active) ==
    LET items == Items(strat, active)
    IN CASE items # {} /\ ~Strategies[strat].sizable -> {[host |-> h, tasks |-> {}, err |-> TRUE]}
         [] OTHER -> {[host |-> h, tasks |-> items, err |-> FALSE]}
                        \cup {[host |-> g, tasks |-> {}, err |-> FALSE] : g \in Happens(h, {h})}

(***************************************************************************)
(* Every task has a ring of one unit.                                      *)
(***************************************************************************)
RingCfg(tasks) == Cardinality(tasks)

NewRingCfg(current, next) == RingCfg(next \ current)

(***************************************************************************)
(* The start gate (syncer.go startGate): only an armed fuse reads memory,  *)
(* and a failed reading allows the start.  A trip opens a new round.       *)
(***************************************************************************)
Allow(h, new) ==
    LET read(avail) ==
          LET f == BeforeStart(h.fuse, new, avail, h.clock + 1)
          IN [host |-> [h EXCEPT !.fuse = f, !.clock = IF f = h.fuse THEN @ ELSE @ + 1],
              ok |-> BeforeStartPasses(h.fuse, new, avail)]
    IN CASE h.fuse.state = "disabled" -> {[host |-> h, ok |-> TRUE]}
         [] Active(h.fuse) -> {[host |-> h, ok |-> FALSE]}
         [] OTHER -> {read(avail) : avail \in Readings}
                        \cup {[host |-> g, ok |-> TRUE] : g \in Happens(h, {h})}

(***************************************************************************)
(* The last part of an apply: set the cpu limit, or stop the worker (which *)
(* stays in the manager) when that fails.                                  *)
(***************************************************************************)
Limit(h, strat) ==
    LET u == UpdateResLimit(h, h.worker, Strategies[strat].limited)
    IN {Outcome(u.ok, "none")}
         \cup Failed(UNION {WorkerStop(g, h.worker) : g \in u.failed})

(***************************************************************************)
(* Start a new Worker.  The manager holds it, with its client, also when   *)
(* the start fails, but not when the directory of the socket or the client *)
(* cannot be made.                                                         *)
(***************************************************************************)
Held(h, w) == [h EXCEPT !.worker = w]

Recorded(h, tasks) == [h EXCEPT !.current = tasks]

Started(h, w, tasks) == Recorded(Held(Start(h, w, tasks).ok, w), tasks)

StartWorker(h, strat, tasks) ==
    LET w == CHOOSE v \in Workers : Idle(h, v)
    IN Limit(Started(h, w, tasks), strat)
         \cup Failed({Held(g, w) : g \in Start(h, w, tasks).failed} \cup Happens(h, {h}))

CanStart(h) == \E w \in Workers : Idle(h, w)

CreateUnlocked(h, strat, active) ==
    IF h.worker # NoWorker THEN Failed({h})
    ELSE UNION {CASE b.err -> Failed({b.host})
                  [] ~b.err /\ b.tasks = {} -> {Outcome(b.host, "none")}
                  [] OTHER -> UNION {IF a.ok THEN StartWorker(a.host, strat, b.tasks)
                                             ELSE {Outcome(a.host, "refused")}
                                     : a \in Allow(b.host, RingCfg(b.tasks))}
                : b \in BuildTasks(h, strat, active)}

CreateIfDead(h, strat, active) ==
    IF IsAlive(h) THEN Failed({h}) ELSE CreateUnlocked(ResetManager(h), strat, active)

(***************************************************************************)
(* The reload command over the control socket sets the reload signal of    *)
(* the worker and answers at once: it arrives, fails before the worker saw *)
(* it, or arrives and the answer is lost.  A dead worker never answers.    *)
(***************************************************************************)
ReloadCommand(h, w) ==
    LET done == [h EXCEPT !.ws[w].reload = TRUE]
    IN IF h.ws[w].os = "running"
       THEN [ok |-> {done}, failed |-> Happens(h, {h, done})]
       ELSE [ok |-> {}, failed |-> {h}]

(***************************************************************************)
(* reloadConfig: the gate is asked only for rings that are new.  The file  *)
(* may not be written, and the command may fail after it was.              *)
(***************************************************************************)
ReloadApplied(h, strat, tasks) ==
    LET r == ReloadCommand(UpdateConfig(h, tasks), h.worker)
    IN (UNION {Limit(Recorded(k, tasks), strat) : k \in r.ok})
         \cup Failed(r.failed \cup Happens(h, {h}))

ReloadTasks(h, strat, tasks) ==
    LET new == NewRingCfg(h.current, tasks)
    IN IF new = 0 THEN ReloadApplied(h, strat, tasks)
       ELSE UNION {IF a.ok THEN ReloadApplied(a.host, strat, tasks)
                   ELSE {Outcome(a.host, "refused")} : a \in Allow(h, new)}

ReloadConfig(h, strat, active) ==
    UNION {CASE b.err -> Failed({b.host})
             [] ~b.err /\ b.tasks = {} -> {Outcome(g, "none") : g \in StopWorker(b.host)}
             [] OTHER -> ReloadTasks(b.host, strat, b.tasks)
           : b \in BuildTasks(h, strat, active)}

UpdateByRestart(h, strat, active) ==
    UNION {CreateUnlocked(g, strat, active) : g \in StopWorker(h)}

UpdateByReload(h, strat, active) ==
    IF h.worker = NoWorker THEN CreateUnlocked(h, strat, active)
                           ELSE ReloadConfig(h, strat, active)

(***************************************************************************)
(* The update policy is configured: h.policy never changes.                *)
(***************************************************************************)
Update(h, strat, active) ==
    IF h.policy = "restart" THEN UpdateByRestart(h, strat, active)
                            ELSE UpdateByReload(h, strat, active)
=============================================================================
