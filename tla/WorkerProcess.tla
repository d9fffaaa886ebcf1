---------------------------- MODULE WorkerProcess ----------------------------
(***************************************************************************)
(* cpdaemon's side of a cpworker process (cpdaemon/pkg/worker/worker.go    *)
(* and cpdaemon/pkg/cgroup/cgroup.go): the Worker object, the goroutine    *)
(* that waits for the process, its pid file and its cpu cgroup.            *)
(*                                                                         *)
(* The host is a record threaded through the calls of a handler.  A call   *)
(* whose result is not determined by the host is the set of hosts it may   *)
(* leave.  Calls that only fail when something outside the daemon goes     *)
(* wrong take one fault from host.events, which bounds them.               *)
(***************************************************************************)
EXTENDS Integers, FiniteSets

CONSTANTS
    Workers,    \* identities of Worker objects and of the process of each
    Tasks,      \* capture tasks, by fingerprint
    MaxEvents   \* bound: faults, and changes made from outside

NoWorker == 0

ASSUME WorkersAssumption == NoWorker \notin Workers

ASSUME EventsAssumption == MaxEvents \in Nat

(***************************************************************************)
(* os is the process as the kernel sees it ("killed": SIGKILL is pending); *)
(* cmd is w.cmd # nil; go is the next step of the goroutine of Start;      *)
(* handle is w.resLimit # nil and dir the cgroup directory of the process: *)
(* "limited" when a handle was returned for it, "unowned" when there is    *)
(* none, because its creation failed after the mkdir.  runs is the task    *)
(* set the process captures and reload its pending reload signal.          *)
(***************************************************************************)
WorkerRec ==
    [os : {"none", "running", "killed", "exited"}, cmd : BOOLEAN,
     go : {"none", "pidfile", "wait", "cgroup", "unlink"}, unlinks : BOOLEAN,
     handle : BOOLEAN, dir : {"none", "limited", "unowned"},
     runs : SUBSET Tasks, reload : BOOLEAN]

NoProcess ==
    [os |-> "none", cmd |-> FALSE, go |-> "none", unlinks |-> FALSE,
     handle |-> FALSE, dir |-> "none", runs |-> {}, reload |-> FALSE]

Spend(h) == [h EXCEPT !.events = @ - 1]

Happens(h, hosts) == IF h.events > 0 THEN {Spend(g) : g \in hosts} ELSE {}

Idle(h, w) == h.ws[w].os = "none" /\ h.ws[w].go = "none" /\ h.pidFile # w

UpdateConfig(h, tasks) == [h EXCEPT !.config = tasks]

(***************************************************************************)
(* Start: the configuration file is written and the process started; a     *)
(* failure of the latter leaves the file.  The goroutine runs on its own.  *)
(***************************************************************************)
StartProcess(h, w, tasks) ==
    [h EXCEPT !.ws[w] = [NoProcess EXCEPT !.os = "running", !.cmd = TRUE,
                                          !.go = "pidfile", !.runs = tasks]]

Start(h, w, tasks) ==
    LET written == UpdateConfig(h, tasks)
    IN [ok |-> StartProcess(written, w, tasks), failed |-> Happens(h, {h, written})]

WorkerAlive(h, w) == h.ws[w].cmd

(***************************************************************************)
(* The steps of the goroutine.                                             *)
(***************************************************************************)
CreatePidFile(h, w) ==
    {[h EXCEPT !.pidFile = w, !.ws[w].go = "wait", !.ws[w].unlinks = TRUE]}
        \cup Happens(h, {[h EXCEPT !.ws[w].go = "wait"]})

ReapIgnoresLimit(h, w) ==
    [h EXCEPT !.ws[w].os = "none", !.ws[w].cmd = FALSE,
              !.ws[w].runs = {}, !.ws[w].reload = FALSE, !.ws[w].go = "unlink"]

Reap(h, w) ==
    [h EXCEPT !.ws[w].os = "none", !.ws[w].cmd = FALSE,
              !.ws[w].runs = {}, !.ws[w].reload = FALSE,
              !.ws[w].go = IF h.ws[w].handle THEN "cgroup" ELSE "unlink"]

RemoveCgroup(h, w) == [h EXCEPT !.ws[w].dir = "none", !.ws[w].go = "unlink"]

RemovePidFile(h, w) ==
    [h EXCEPT !.pidFile = IF h.ws[w].unlinks THEN NoWorker ELSE @,
              !.ws[w].go = "none", !.ws[w].unlinks = FALSE]

(***************************************************************************)
(* The goroutine run to its end, after which waitDone is closed.           *)
(***************************************************************************)
Finished(h, w) ==
    LET waiting == IF h.ws[w].go = "pidfile" THEN CreatePidFile(h, w) ELSE {h}
        cleaned(g) == IF g.ws[w].handle THEN RemoveCgroup(Reap(g, w), w) ELSE Reap(g, w)
    IN {RemovePidFile(cleaned(g), w) : g \in waiting}

(***************************************************************************)
(* killProcess waits one second for waitDone and then gives up, with the   *)
(* process on its way out and the goroutine still to do its work.          *)
(***************************************************************************)
KillProcess(h, w) ==
    Finished(h, w)
        \cup Happens(h, {[h EXCEPT !.ws[w].os = IF @ = "running" THEN "killed" ELSE @]})

(***************************************************************************)
(* Stop: nothing is done, or waited for, once the goroutine cleared cmd.   *)
(* Otherwise SIGINT, and SIGKILL when the process is not done in time.     *)
(***************************************************************************)
WorkerStop(h, w) ==
    IF h.ws[w].cmd THEN Finished(h, w) \cup KillProcess(h, w) ELSE {h}

WorkerKill(h, w) == IF h.ws[w].cmd THEN KillProcess(h, w) ELSE {h}

(***************************************************************************)
(* CreateProcessLimit: make the directory of the pid, write the quota, add *)
(* the process.  An error after the mkdir leaves the directory.            *)
(***************************************************************************)
CreateCgroup(h, w) ==
    LET made == [h EXCEPT !.ws[w].dir = IF @ = "none" THEN "unowned" ELSE @]
    IN [ok |-> made, failed |-> Happens(h, {h, made})]

CreateProcessLimit(h, w) ==
    LET c == CreateCgroup(h, w)
    IN [ok |-> [c.ok EXCEPT !.ws[w].dir = "limited", !.ws[w].handle = TRUE],
        failed |-> c.failed \cup Happens(h, {c.ok})]

(***************************************************************************)
(* UpdateResLimit: without a limit an existing cgroup is only reset; with  *)
(* one, a worker that is gone loses its handle.                            *)
(***************************************************************************)
UpdateResLimit(h, w, limited) ==
    CASE ~limited -> [ok |-> h, failed |-> IF h.ws[w].handle THEN Happens(h, {h}) ELSE {}]
      [] limited /\ ~h.ws[w].cmd -> [ok |-> [h EXCEPT !.ws[w].handle = FALSE], failed |-> {}]
      [] OTHER -> CreateProcessLimit(h, w)
=============================================================================
