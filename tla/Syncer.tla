------------------------------- MODULE Syncer -------------------------------
(***************************************************************************)
(* cpdaemon's Syncer (cpdaemon/pkg/cpm/syncer.go), composed with the       *)
(* worker manager, the worker processes, the memory fuse and CPM, the      *)
(* controller it reports to.                                               *)
(*                                                                         *)
(* One goroutine runs registerLoop and syncLoop in turn, so each handler   *)
(* is one step: it may wait inside a call, but nothing else of the daemon  *)
(* uses its state meanwhile.  The processes, and the goroutine that waits  *)
(* for each of them, take their own steps.  CPM is external: it keeps one  *)
(* record for the daemon's id, gives every change a new version, and       *)
(* stores a fuse round it has not seen.  A request or its answer may be    *)
(* lost, the daemon may be killed and started again.                       *)
(***************************************************************************)
EXTENDS WorkerManager

CONSTANTS
    Instances,      \* KVM instances, a subset of Tasks: one task for each
    FirstStrategy,  \* the strategy of a new record of CPM
    Policies,       \* update policies the daemon may be configured with
    MaxRetries,     \* SyncStrategyMaxRetries
    MaxIds          \* bound: records CPM makes for this daemon

ASSUME SyncerAssumption ==
    /\ FirstStrategy \in DOMAIN Strategies
    /\ MaxRetries \in Nat
    /\ MaxIds \in Nat \ {0}

VARIABLES
    host,       \* processes, pid file, configuration file, manager, fuse
    syncer,     \* the fields of the Syncer
    cpm,        \* CPM's record of this daemon
    active      \* KVM instances that run

vars == <<host, syncer, cpm, active>>

NoId == 0

NoResp == [id |-> NoId, ver |-> 0, strat |-> FirstStrategy]

NewRecord(id) ==
    [id |-> id, ver |-> 1, strat |-> FirstStrategy, enabled |-> TRUE,
     fused |-> FALSE, round |-> NoSnap]

(***************************************************************************)
(* clock numbers the rounds of the fuse and, like the time it stands for,  *)
(* survives the daemon.                                                    *)
(***************************************************************************)
NewHost(policy) ==
    [policy |-> policy, ws |-> [w \in Workers |-> NoProcess],
     pidFile |-> NoWorker, config |-> {},
     worker |-> NoWorker, current |-> {}, fuse |-> NewFuse, clock |-> 0,
     events |-> MaxEvents]

NewSyncer == [phase |-> "register", reg |-> NoId, resp |-> NoResp, acts |-> {}, fails |-> 0]

Init ==
    /\ \E p \in Policies : host = NewHost(p)
    /\ syncer = NewSyncer
    /\ cpm = NewRecord(1)
    /\ active = {}

HasResp == syncer.resp # NoResp

ResetSyncState(s) == [s EXCEPT !.resp = NoResp, !.acts = {}]

-----------------------------------------------------------------------------
(***************************************************************************)
(* The calls of the HTTP client.  A call is answered, or fails before or   *)
(* after CPM acted on it; CPM answers the requests of its own id only.     *)
(* The strategy is sent when the version asked for is not the current one. *)
(***************************************************************************)
RegisterCall(h) ==
    {[host |-> h, err |-> FALSE]} \cup {[host |-> g, err |-> TRUE] : g \in Happens(h, {h})}

StrategyCall(h, reg, ver) ==
    LET failed(g) == [host |-> g, err |-> TRUE, changed |-> FALSE]
    IN IF reg # cpm.id THEN {failed(h)}
       ELSE {[host |-> h, err |-> FALSE, changed |-> ver # cpm.ver]}
              \cup {failed(g) : g \in Happens(h, {h})}

Stored(c, rep) ==
    IF rep.state = "fused" /\ rep.snap # c.round
    THEN [c EXCEPT !.fused = TRUE, !.round = rep.snap, !.ver = @ + 1]
    ELSE c

MetricsCall(h, reg, c, rep) ==
    LET outcome(g, k, err) == [host |-> g, cpm |-> k, err |-> err]
    IN IF reg # c.id THEN {outcome(h, c, TRUE)}
       ELSE {outcome(h, Stored(c, rep), FALSE)}
              \cup {outcome(g, k, TRUE) : g \in Happens(h, {h}), k \in {c, Stored(c, rep)}}

(***************************************************************************)
(* syncMetric: report; an answer confirms a tripped fuse.                  *)
(***************************************************************************)
Acknowledged(h) == [h EXCEPT !.fuse = OnReportAck(@)]

SyncMetric(h, reg, c) ==
    {[host |-> IF r.err THEN r.host ELSE Acknowledged(r.host), cpm |-> r.cpm]
     : r \in MetricsCall(h, reg, c, Report(h.fuse))}

(***************************************************************************)
(* trip: the worker of a fuse that has just tripped is killed and the fuse *)
(* reported at once.                                                       *)
(***************************************************************************)
TripReportsOnly(h, reg, c) == SyncMetric(h, reg, c)

TripOutcomes(h, reg, c) == UNION {SyncMetric(g, reg, c) : g \in KillWorker(h)}

-----------------------------------------------------------------------------
(***************************************************************************)
(* Registration.                                                           *)
(***************************************************************************)
DoRegister(h) ==
    LET entered == [syncer EXCEPT !.phase = "sync", !.reg = cpm.id, !.fails = 0]
    IN IF HasResp /\ syncer.resp.id # cpm.id
       THEN \E g \in StopWorker(h) :
              /\ host' = [g EXCEPT !.fuse = Reset(@)]
              /\ syncer' = ResetSyncState(entered)
       ELSE host' = h /\ syncer' = entered

(***************************************************************************)
(* A failed attempt is repeated.  When attempts have failed for long       *)
(* enough (which any failure may find to be so) the worker is stopped.     *)
(***************************************************************************)
RegisterFailed(h) ==
    \/ host' = h /\ UNCHANGED syncer
    \/ /\ HasResp
       /\ host' \in StopWorker(h)
       /\ syncer' = ResetSyncState(syncer)

Register ==
    /\ syncer.phase = "register"
    /\ \E r \in RegisterCall(host) :
         \/ ~r.err /\ DoRegister(r.host)
         \/ r.err /\ RegisterFailed(r.host)
    /\ UNCHANGED <<cpm, active>>

-----------------------------------------------------------------------------
(***************************************************************************)
(* Applying a strategy.  Outcomes are [host, syncer, tripped]; tripped     *)
(* asks for the trip that follows a refusal.                               *)
(***************************************************************************)
Applied(h, s, tripped) == [host |-> h, syncer |-> s, tripped |-> tripped]

WithActs(s, found) == [s EXCEPT !.acts = found]

Advanced(s, res) == [s EXCEPT !.resp = [id |-> res.id, ver |-> res.ver, strat |-> res.strat]]

(***************************************************************************)
(* The KVM instances, asked only for a strategy that names some; when the  *)
(* question fails the strategy is applied as if none ran.                  *)
(***************************************************************************)
ActiveInstances(h, strat) ==
    IF ~HasInstances(strat) THEN {[host |-> h, found |-> {}]}
    ELSE {[host |-> h, found |-> active]}
           \cup {[host |-> g, found |-> {}] : g \in Happens(h, {h})}

RestartDead(h) ==
    UNION {IF Items(syncer.resp.strat, a.found) = {} THEN {Applied(a.host, syncer, FALSE)}
           ELSE {Applied(r.host,
                         IF r.err = "none" THEN WithActs(syncer, a.found) ELSE syncer,
                         r.err = "refused")
                 : r \in CreateIfDead(a.host, syncer.resp.strat, a.found)}
           : a \in ActiveInstances(h, syncer.resp.strat)}

InstancesDiffer(strat, old, new) ==
    Strategies[strat].instances \cap old # Strategies[strat].instances \cap new

UpdateIfInstanceChanged(h) ==
    LET strat == syncer.resp.strat
    IN IF HasResp /\ HasInstances(strat) /\ InstancesDiffer(strat, syncer.acts, active)
       THEN {Applied(r.host,
                     IF r.err = "none" THEN WithActs(syncer, active) ELSE syncer,
                     r.err = "refused")
             : r \in Update(h, strat, active)}
       ELSE {Applied(h, syncer, FALSE)}

ApplyUnchanged(h) ==
    CASE Active(h.fuse) -> {Applied(h, syncer, FALSE)}
      [] ~Active(h.fuse) /\ ~IsAlive(h) /\ HasResp -> RestartDead(h)
      [] OTHER -> UpdateIfInstanceChanged(h)

(***************************************************************************)
(* A strategy the fuse does not allow advances the version, and a worker   *)
(* of a fuse that CPM says is fused is killed.  So does a refused one; a   *)
(* failure leaves the version, and the strategy is delivered again.        *)
(***************************************************************************)
FuseAllowsStrategy(h, res) ==
    LET f == OnStrategy(h.fuse, res.enabled, res.fused)
        g == [h EXCEPT !.fuse = f]
    IN IF OnStrategyApplies(h.fuse, res.fused) \/ Active(h.fuse) \/ ~IsAlive(h)
       THEN {g} ELSE KillWorker(g)

ApplyChangedAdvances(h, res) ==
    LET advanced == Advanced(syncer, res)
    IN IF ~OnStrategyApplies(h.fuse, res.fused)
       THEN {Applied(g, advanced, FALSE) : g \in FuseAllowsStrategy(h, res)}
       ELSE UNION {{Applied(r.host, WithActs(advanced, active), r.err = "refused")
                    : r \in Update(g, res.strat, active)} : g \in FuseAllowsStrategy(h, res)}

ApplyChanged(h, res) ==
    LET advanced == Advanced(syncer, res)
        after(r, found) ==
          IF r.err = "failed" THEN Applied(r.host, syncer, FALSE)
          ELSE Applied(r.host, WithActs(advanced, found), r.err = "refused")
    IN IF ~OnStrategyApplies(h.fuse, res.fused)
       THEN {Applied(g, advanced, FALSE) : g \in FuseAllowsStrategy(h, res)}
       ELSE UNION {UNION {{after(r, a.found) : r \in Update(a.host, res.strat, a.found)}
                          : a \in ActiveInstances(g, res.strat)}
                   : g \in FuseAllowsStrategy(h, res)}

ApplyStrategy(h, changed) == IF changed THEN ApplyChanged(h, cpm) ELSE ApplyUnchanged(h)

(***************************************************************************)
(* The timers of syncLoop.  A poll that fails too often re-registers.      *)
(***************************************************************************)
PollAnswered(r) ==
    /\ \E o \in ApplyStrategy(r.host, r.changed) :
         /\ syncer' = [o.syncer EXCEPT !.fails = 0]
         /\ IF o.tripped
            THEN \E t \in TripOutcomes(o.host, syncer.reg, cpm) :
                   host' = t.host /\ cpm' = t.cpm
            ELSE host' = o.host /\ UNCHANGED cpm
    /\ UNCHANGED active

PollFailedKeepsPolling(r) == host' = r.host /\ UNCHANGED <<syncer, cpm, active>>

PollFailed(r) ==
    /\ host' = r.host
    /\ syncer' = IF syncer.fails >= MaxRetries THEN [syncer EXCEPT !.phase = "register"]
                                               ELSE [syncer EXCEPT !.fails = @ + 1]
    /\ UNCHANGED <<cpm, active>>

Poll ==
    /\ syncer.phase = "sync"
    /\ CanStart(host)
    /\ \E r \in StrategyCall(host, syncer.reg, IF HasResp THEN syncer.resp.ver ELSE 0) :
         \/ ~r.err /\ PollAnswered(r)
         \/ r.err /\ PollFailed(r)

MetricTickIfAlive ==
    /\ syncer.phase = "sync"
    /\ IsAlive(host)
    /\ \E t \in SyncMetric(host, syncer.reg, cpm) : host' = t.host /\ cpm' = t.cpm
    /\ UNCHANGED <<syncer, active>>

MetricTick ==
    /\ syncer.phase = "sync"
    /\ \E t \in SyncMetric(host, syncer.reg, cpm) : host' = t.host /\ cpm' = t.cpm
    /\ UNCHANGED <<syncer, active>>

(***************************************************************************)
(* onFuseTick: one runtime check; a failed reading changes nothing.        *)
(***************************************************************************)
FuseTick ==
    /\ syncer.phase = "sync"
    /\ host.fuse.state = "armed"
    /\ HasResp
    /\ IsAlive(host)
    /\ \E avail \in Readings :
         LET f == OnCheck(host.fuse, avail, host.clock + 1)
         IN IF f.state = "tripped"
            THEN \E t \in TripOutcomes([host EXCEPT !.fuse = f, !.clock = @ + 1], syncer.reg, cpm) :
                   host' = t.host /\ cpm' = t.cpm
            ELSE host' = [host EXCEPT !.fuse = f] /\ UNCHANGED cpm
    /\ UNCHANGED <<syncer, active>>

(***************************************************************************)
(* The network interfaces changed: register again.                         *)
(***************************************************************************)
NicsChanged ==
    /\ syncer.phase = "sync"
    /\ host.events > 0
    /\ host' = Spend(host)
    /\ syncer' = [syncer EXCEPT !.phase = "register"]
    /\ UNCHANGED <<cpm, active>>

-----------------------------------------------------------------------------
(***************************************************************************)
(* The daemon ends: its goroutines and all it kept in memory are gone, the *)
(* processes, the pid file and the configuration file are not.             *)
(***************************************************************************)
Orphaned(r) ==
    [r EXCEPT !.cmd = FALSE, !.go = "none", !.unlinks = FALSE, !.handle = FALSE,
              !.dir = IF @ = "limited" THEN "unowned" ELSE @,
              !.os = IF @ = "exited" THEN "none" ELSE @]

DaemonGone(h) ==
    [h EXCEPT !.worker = NoWorker, !.current = {}, !.fuse = NewFuse,
              !.ws = [w \in Workers |-> Orphaned(h.ws[w])]]

Down == [NewSyncer EXCEPT !.phase = "down"]

(***************************************************************************)
(* A cancelled context: syncLoop stops the worker, registerLoop does not.  *)
(***************************************************************************)
Shutdown ==
    /\ host.events > 0
    /\ \/ syncer.phase = "sync" /\ \E h \in StopWorker(Spend(host)) : host' = DaemonGone(h)
       \/ syncer.phase = "register" /\ host' = DaemonGone(Spend(host))
    /\ syncer' = Down
    /\ UNCHANGED <<cpm, active>>

Crash ==
    /\ syncer.phase # "down"
    /\ host.events > 0
    /\ host' = DaemonGone(Spend(host))
    /\ syncer' = Down
    /\ UNCHANGED <<cpm, active>>

(***************************************************************************)
(* The daemon starts: killOrphanWorker sends SIGKILL to the worker the pid *)
(* file names, if it still runs.                                           *)
(***************************************************************************)
KillOrphanWorker(h) ==
    IF h.pidFile # NoWorker /\ h.ws[h.pidFile].os = "running"
    THEN [h EXCEPT !.ws[h.pidFile].os = "killed"] ELSE h

Boot ==
    /\ syncer.phase = "down"
    /\ host' = KillOrphanWorker(host)
    /\ syncer' = NewSyncer
    /\ UNCHANGED <<cpm, active>>

-----------------------------------------------------------------------------
(***************************************************************************)
(* Processes and the goroutines of their Worker objects.                   *)
(***************************************************************************)
Goroutine(w) ==
    /\ \/ host.ws[w].go = "pidfile" /\ host' \in CreatePidFile(host, w)
       \/ host.ws[w].go = "wait" /\ host.ws[w].os = "exited" /\ host' = Reap(host, w)
       \/ host.ws[w].go = "cgroup" /\ host' = RemoveCgroup(host, w)
       \/ host.ws[w].go = "unlink" /\ host' = RemovePidFile(host, w)
    /\ UNCHANGED <<syncer, cpm, active>>

Gone(w) == IF host.ws[w].go = "none" THEN "none" ELSE "exited"

ProcessExits(w) ==
    /\ host.ws[w].os = "running"
    /\ host' \in Happens(host, {[host EXCEPT !.ws[w].os = Gone(w)]})
    /\ UNCHANGED <<syncer, cpm, active>>

KilledDies(w) ==
    /\ host.ws[w].os = "killed"
    /\ host' = [host EXCEPT !.ws[w].os = Gone(w)]
    /\ UNCHANGED <<syncer, cpm, active>>

(***************************************************************************)
(* cpworker takes its reload signal and reads the file as it is then; a    *)
(* reload that fails leaves it with the tasks it has.                      *)
(***************************************************************************)
WorkerReloads(w) ==
    /\ host.ws[w].os = "running" /\ host.ws[w].reload
    /\ host' \in {[host EXCEPT !.ws[w].reload = FALSE, !.ws[w].runs = host.config]}
                   \cup Happens(host, {[host EXCEPT !.ws[w].reload = FALSE]})
    /\ UNCHANGED <<syncer, cpm, active>>

(***************************************************************************)
(* An administrator changes the strategy or the fuse switch, clears the    *)
(* fuse, or removes the daemon's record, so that the next registration     *)
(* makes a new one.  KVM instances start and stop.                         *)
(***************************************************************************)
Administrate ==
    /\ host' \in Happens(host, {host})
    /\ \/ \E s \in DOMAIN Strategies \ {cpm.strat} :
            cpm' = [cpm EXCEPT !.strat = s, !.ver = @ + 1]
       \/ cpm' = [cpm EXCEPT !.enabled = ~@, !.ver = @ + 1]
       \/ /\ cpm.fused
          /\ cpm' = [cpm EXCEPT !.fused = FALSE, !.ver = @ + 1]
       \/ /\ cpm.id < MaxIds
          /\ cpm' = NewRecord(cpm.id + 1)
    /\ UNCHANGED <<syncer, active>>

InstanceChanges ==
    /\ host' \in Happens(host, {host})
    /\ active' \in SUBSET Instances \ {active}
    /\ UNCHANGED <<syncer, cpm>>

Next ==
    \/ Register \/ Poll \/ MetricTick \/ FuseTick \/ NicsChanged
    \/ Shutdown \/ Crash \/ Boot
    \/ \E w \in Workers : Goroutine(w) \/ ProcessExits(w) \/ KilledDies(w) \/ WorkerReloads(w)
    \/ Administrate \/ InstanceChanges

Spec == Init /\ [][Next]_vars

(***************************************************************************)
(* The timers of the loops fire again and again, goroutines and processes  *)
(* are scheduled, and a process that was sent SIGKILL ends.  Faults are    *)
(* bounded, so a retried call ends up succeeding; nothing is assumed of    *)
(* the administrator, of the fuse ticks or of a daemon that is down.       *)
(***************************************************************************)
Fairness ==
    /\ WF_vars(Register)
    /\ WF_vars(Poll)
    /\ WF_vars(MetricTick)
    /\ \A w \in Workers : WF_vars(Goroutine(w)) /\ WF_vars(KilledDies(w)) /\ WF_vars(WorkerReloads(w))

FairSpec == Spec /\ Fairness

-----------------------------------------------------------------------------
(***************************************************************************)
(* The state of every part of the daemon is of its type; an armed fuse has *)
(* fewer hits than trip it, and only a fuse that is active has a snapshot. *)
(***************************************************************************)
TypeOK ==
    /\ host.ws \in [Workers -> WorkerRec]
    /\ host.pidFile \in Workers \cup {NoWorker}
    /\ host.worker \in Workers \cup {NoWorker}
    /\ host.config \subseteq Tasks /\ host.current \subseteq Tasks
    /\ host.fuse \in Fuse /\ host.fuse.snap <= host.clock
    /\ host.events \in 0..MaxEvents
    /\ host.fuse.state = "armed" => host.fuse.hits < FailThreshold
    /\ host.fuse.snap # NoSnap => Active(host.fuse)
    /\ syncer.phase \in {"register", "sync", "down"}
    /\ syncer.reg \in 0..MaxIds /\ syncer.fails \in 0..MaxRetries
    /\ active \subseteq Instances

(***************************************************************************)
(* A worker this daemon started and has not sent SIGKILL.                  *)
(***************************************************************************)
Capturing(w) == host.ws[w].go # "none" /\ host.ws[w].os = "running"

(***************************************************************************)
(* While the fuse is tripped or fused nothing captures: every path that    *)
(* trips it kills the worker in the same handler (syncer.go trip,          *)
(* fuseAllowsStrategy) and no path starts one again.                       *)
(***************************************************************************)
NoCaptureWhileFused == Active(host.fuse) => \A w \in Workers : ~Capturing(w)

(***************************************************************************)
(* The manager never loses a worker: a process that captures is the one it *)
(* holds, whatever failed in creating, updating or stopping it             *)
(* (worker_mgr.go), so there is never a second one.                        *)
(***************************************************************************)
CapturingIsManaged == \A w \in Workers : Capturing(w) => w = host.worker

(***************************************************************************)
(* The version the daemon acknowledges is the one its worker was given: a  *)
(* worker captures only with the task set of the stored strategy, also     *)
(* when applying a later one failed half way (syncer.go applyStrategy      *)
(* returns before it stores a strategy that could not be applied).         *)
(***************************************************************************)
AcknowledgedIsApplied ==
    \A w \in Workers :
        Capturing(w) => HasResp /\ host.current = Items(syncer.resp.strat, syncer.acts)

(***************************************************************************)
(* The exit goroutine removes the cgroup of every worker that was given    *)
(* one with a handle, whenever the limit was set and whatever ended the    *)
(* process (worker.go reads resLimit under the lock that clears cmd).      *)
(***************************************************************************)
CgroupRemoved ==
    \A w \in Workers :
        host.ws[w].os = "none" /\ host.ws[w].go = "none" => host.ws[w].dir # "limited"

(***************************************************************************)
(* A tripped fuse is confirmed in the end: lost reports are repeated until *)
(* CPM answers one (syncer.go syncMetric), unless the daemon ends or gets  *)
(* a new id.                                                               *)
(***************************************************************************)
TripConfirmed == host.fuse.state = "tripped" ~> host.fuse.state # "tripped"

(***************************************************************************)
(* What CPM asks for runs, or the fuse, a strategy that cannot be sized or *)
(* the end of the daemon keeps it from running.                            *)
(***************************************************************************)
Settled ==
    \/ syncer.phase = "down"
    \/ Active(host.fuse)
    \/ ~Strategies[cpm.strat].sizable
    \/ /\ syncer.resp = [id |-> cpm.id, ver |-> cpm.ver, strat |-> cpm.strat]
       /\ UNION {host.ws[w].runs : w \in {v \in Workers : Capturing(v)}} = Items(cpm.strat, active)

(***************************************************************************)
(* With the restart policy the last strategy is applied in the end, after  *)
(* any faults: a dead worker is restarted, a failed apply repeated, a lost *)
(* registration made again (syncer.go registerLoop, syncLoop).             *)
(***************************************************************************)
LastStrategyRuns == host.policy = "restart" => <>[]Settled

(***************************************************************************)
(* The same of both policies: a worker that is not alive is restarted, as  *)
(* the unchanged branch of applyStrategy says it will be.                  *)
(***************************************************************************)
DeadWorkerRestarted == <>[]Settled
=============================================================================
