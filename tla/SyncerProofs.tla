---------------------------- MODULE SyncerProofs ----------------------------
(***************************************************************************)
(* The daemon never captures with an active fuse, never loses a worker,    *)
(* never captures with tasks other than those of the strategy it           *)
(* acknowledges, and never leaves a cgroup behind, for any workers,        *)
(* strategies, thresholds and number of faults.                            *)
(*                                                                         *)
(* First what the calls of the worker manager preserve, whatever fails in  *)
(* them.  HostInv is what holds of the host between the calls of a         *)
(* handler.  It leaves out the fuse, which may have tripped with the       *)
(* worker still to be killed: FuseInv is restored at the end of the        *)
(* handler.                                                                *)
(***************************************************************************)
EXTENDS Syncer, TLAPS

(***************************************************************************)
(* A fuse between two of its methods: an armed one has not enough hits to  *)
(* trip, and only an active one has a snapshot.                            *)
(***************************************************************************)
FuseRec ==
    {f \in Fuse : /\ f.state = "armed" => f.hits < FailThreshold
                  /\ f.snap # NoSnap => Active(f)}

(***************************************************************************)
(* A snapshot belongs to a round that was opened.                          *)
(***************************************************************************)
Host(policies) ==
    {h \in [policy : policies, ws : [Workers -> WorkerRec], pidFile : Workers \cup {NoWorker},
            config : SUBSET Tasks, worker : Workers \cup {NoWorker}, current : SUBSET Tasks,
            fuse : FuseRec, clock : Nat, events : 0..MaxEvents]
     : h.fuse.snap <= h.clock}

(***************************************************************************)
(* A Worker object: cmd is set exactly until the goroutine has waited for  *)
(* the process, and a cgroup with a handle has a goroutine to remove it.   *)
(***************************************************************************)
Consistent(r) ==
    /\ r.cmd <=> r.go \in {"pidfile", "wait"}
    /\ r.go \in {"cgroup", "unlink"} => r.os # "running"
    /\ r.dir = "limited" => r.go = "cgroup" \/ (r.cmd /\ r.handle)

Captures(r) == r.go # "none" /\ r.os = "running"

Quiet(h) == \A w \in Workers : ~Captures(h.ws[w])

FuseInv(h) == Active(h.fuse) => Quiet(h)

(***************************************************************************)
(* From h to g nothing started to capture, and what still captures has the *)
(* task set it had.                                                        *)
(***************************************************************************)
Still(h, g) == Quiet(g) \/ (~Quiet(h) /\ g.current = h.current)

HostInv(h, policies) ==
    /\ h \in Host(policies)
    /\ \A w \in Workers : Consistent(h.ws[w])
    /\ \A w \in Workers : Captures(h.ws[w]) => w = h.worker

(***************************************************************************)
(* A call on Worker w: what it leaves alone.                               *)
(***************************************************************************)
Touches(h, g, w) ==
    /\ g.worker = h.worker /\ g.fuse = h.fuse /\ g.current = h.current
    /\ g.pidFile \in {h.pidFile, w, NoWorker}
    /\ \A v \in Workers : v # w => g.ws[v] = h.ws[v]

-----------------------------------------------------------------------------
(***************************************************************************)
(* What may have failed on the way from h to g, and nothing else.          *)
(***************************************************************************)
MayFail(h, g) == g = h \/ (h.events > 0 /\ g = Spend(h))

(***************************************************************************)
(* A fault only takes an event, of those that are left.                    *)
(***************************************************************************)
LEMMA SpendFacts ==
    ASSUME NEW P, NEW h, HostInv(h, P), NEW g, MayFail(h, g)
    PROVE  /\ HostInv(g, P)
           /\ g.ws = h.ws
           /\ g.worker = h.worker
           /\ g.pidFile = h.pidFile
           /\ g.fuse = h.fuse
           /\ g.current = h.current
<1>1. CASE h.events > 0 /\ g = Spend(h)
  <2> DEFINE n == h.events - 1
  <2>1. n \in 0..MaxEvents
    <3>1. h.events \in 0..MaxEvents
        BY Zenon DEF HostInv, Host
    <3> QED BY <1>1, <3>1, EventsAssumption
  <2>2. g = [h EXCEPT !.events = n]
      BY <1>1, Zenon DEF Spend
  <2> HIDE DEF n
  <2>3. h \in Host(P)
      BY Zenon DEF HostInv
  <2>4. /\ g \in Host(P)
        /\ g.ws = h.ws /\ g.worker = h.worker /\ g.pidFile = h.pidFile
        /\ g.fuse = h.fuse /\ g.current = h.current
      BY <2>1, <2>2, <2>3, Zenon DEF Host
  <2> QED BY <2>4, Zenon DEF HostInv
<1>2. CASE g = h
    BY <1>2, Zenon
<1> QED BY <1>1, <1>2, Zenon DEF MayFail

(***************************************************************************)
(* A call on one Worker keeps the invariant when it leaves a consistent    *)
(* object that does not start to capture.                                  *)
(***************************************************************************)
LEMMA ChangeWorker ==
    ASSUME NEW P, NEW h, HostInv(h, P), NEW w \in Workers,
           NEW g \in Host(P), Touches(h, g, w),
           Consistent(g.ws[w]), Captures(g.ws[w]) => w = h.worker
    PROVE  HostInv(g, P)
BY Zenon DEF HostInv, Touches

(***************************************************************************)
(* The parts of the invariant a call on one Worker needs.                  *)
(***************************************************************************)
LEMMA WorkerParts ==
    ASSUME NEW P, NEW h, HostInv(h, P), NEW w \in Workers
    PROVE  /\ h \in Host(P) /\ h.ws \in [Workers -> WorkerRec] /\ h.ws[w] \in WorkerRec
           /\ Consistent(h.ws[w]) /\ (Captures(h.ws[w]) => w = h.worker)
BY Zenon DEF HostInv, Host

(***************************************************************************)
(* The steps of the goroutine.  Reap does not ask whether the process ran: *)
(* it is used for one that was told to end.                                *)
(***************************************************************************)
LEMMA CreatePidFileFacts ==
    ASSUME NEW P, NEW h, HostInv(h, P), NEW w \in Workers, h.ws[w].go = "pidfile",
           NEW g \in CreatePidFile(h, w)
    PROVE  HostInv(g, P) /\ Touches(h, g, w) /\ g.ws[w].cmd
<1> DEFINE made == [h EXCEPT !.pidFile = w, !.ws[w].go = "wait", !.ws[w].unlinks = TRUE]
           none == [h EXCEPT !.ws[w].go = "wait"]
<1>1. /\ h \in Host(P) /\ h.ws \in [Workers -> WorkerRec] /\ h.ws[w] \in WorkerRec
      /\ Consistent(h.ws[w]) /\ (Captures(h.ws[w]) => w = h.worker)
    BY WorkerParts, Zenon
<1>2. made \in Host(P) /\ Touches(h, made, w)
    BY <1>1 DEF Host, WorkerRec, Touches
<1>3. made.ws[w] = [h.ws[w] EXCEPT !.go = "wait", !.unlinks = TRUE]
    BY <1>1, Zenon DEF Host
<1>4. made.ws[w].cmd /\ Consistent(made.ws[w]) /\ (Captures(made.ws[w]) => w = h.worker)
    BY <1>1, <1>3 DEF WorkerRec, Consistent, Captures
<1>5. none \in Host(P) /\ Touches(h, none, w) /\ none.events = h.events
    BY <1>1, Zenon DEF Host, WorkerRec, Touches
<1>6. none.ws[w] = [h.ws[w] EXCEPT !.go = "wait"]
    BY <1>1, Zenon DEF Host
<1>7. none.ws[w].cmd /\ Consistent(none.ws[w]) /\ (Captures(none.ws[w]) => w = h.worker)
    BY <1>1, <1>6 DEF WorkerRec, Consistent, Captures
<1>8. g = made \/ (h.events > 0 /\ g = Spend(none))
    BY Zenon DEF CreatePidFile, Happens
<1> HIDE DEF made, none
<1>9. HostInv(made, P) /\ HostInv(none, P)
    BY <1>2, <1>4, <1>5, <1>7, ChangeWorker, Zenon
<1>10. ASSUME h.events > 0, g = Spend(none)
       PROVE  HostInv(g, P) /\ Touches(h, g, w) /\ g.ws[w].cmd
  <2>1. MayFail(none, g)
    BY <1>5, <1>10, Zenon DEF MayFail
  <2>2. QED
    BY <1>5, <1>7, <1>9, <2>1, SpendFacts DEF Touches
<1>11. QED
    BY <1>2, <1>4, <1>8, <1>9, <1>10, Zenon

(***************************************************************************)
(* Reap keeps the invariant, and goes on to the cgroup if there is a       *)
(* handle.                                                                 *)
(***************************************************************************)
LEMMA ReapFacts ==
    ASSUME NEW P, NEW h, HostInv(h, P), NEW w \in Workers, h.ws[w].cmd
    PROVE  /\ HostInv(Reap(h, w), P) /\ Touches(h, Reap(h, w), w)
           /\ Reap(h, w).ws[w].go = IF h.ws[w].handle THEN "cgroup" ELSE "unlink"
<1> DEFINE g == Reap(h, w)
           next == IF h.ws[w].handle THEN "cgroup" ELSE "unlink"
           r == [h.ws[w] EXCEPT !.os = "none", !.cmd = FALSE, !.runs = {}, !.reload = FALSE,
                                !.go = next]
<1>1. /\ h \in Host(P) /\ h.ws \in [Workers -> WorkerRec] /\ h.ws[w] \in WorkerRec
      /\ Consistent(h.ws[w]) /\ (Captures(h.ws[w]) => w = h.worker)
    BY WorkerParts, Zenon
<1>2. next \in {"cgroup", "unlink"} /\ (h.ws[w].handle => next = "cgroup")
    OBVIOUS
<1>3. g = [h EXCEPT !.ws[w].os = "none", !.ws[w].cmd = FALSE, !.ws[w].runs = {},
                    !.ws[w].reload = FALSE, !.ws[w].go = next]
    BY Zenon DEF Reap
<1> HIDE DEF next, g
<1>4. r \in WorkerRec /\ r.go = next /\ ~Captures(r)
    BY <1>1, <1>2, Zenon DEF WorkerRec, Captures
<1>5. Consistent(r)
    BY <1>1, <1>2, Zenon DEF WorkerRec, Consistent
<1>6. g \in Host(P) /\ Touches(h, g, w) /\ g.ws[w] = r
  <2>1. g.ws = [h.ws EXCEPT ![w] = r]
    BY <1>1, <1>3, ZenonT(40) DEF Host
  <2>2. g = [h EXCEPT !.ws = g.ws]
    BY <1>1, <1>3, ZenonT(40) DEF Host
  <2> HIDE DEF r
  <2>3. g.ws \in [Workers -> WorkerRec] /\ g.ws[w] = r
    BY <1>1, <1>4, <2>1, Zenon
  <2>4. QED
    BY <1>1, <2>1, <2>2, <2>3 DEF Host, Touches
<1> HIDE DEF r
<1>7. HostInv(g, P)
    BY <1>4, <1>5, <1>6, ChangeWorker, Zenon
<1>8. QED
    BY <1>4, <1>6, <1>7, Zenon DEF g, next

(***************************************************************************)
(* The cgroup is removed before the pid file.                              *)
(***************************************************************************)
LEMMA RemoveCgroupFacts ==
    ASSUME NEW P, NEW h, HostInv(h, P), NEW w \in Workers, h.ws[w].go = "cgroup"
    PROVE  /\ HostInv(RemoveCgroup(h, w), P) /\ Touches(h, RemoveCgroup(h, w), w)
           /\ RemoveCgroup(h, w).ws[w].go = "unlink"
<1> DEFINE g == RemoveCgroup(h, w)
<1>1. /\ h \in Host(P) /\ h.ws \in [Workers -> WorkerRec] /\ h.ws[w] \in WorkerRec
      /\ Consistent(h.ws[w]) /\ (Captures(h.ws[w]) => w = h.worker)
    BY WorkerParts, Zenon
<1>2. g.ws[w] = [h.ws[w] EXCEPT !.dir = "none", !.go = "unlink"]
    BY <1>1, Zenon DEF Host, RemoveCgroup
<1>3. g \in Host(P) /\ Touches(h, g, w)
    BY <1>1, Zenon DEF Host, WorkerRec, Touches, RemoveCgroup
<1>4. Consistent(g.ws[w]) /\ ~Captures(g.ws[w]) /\ g.ws[w].go = "unlink"
    BY <1>1, <1>2, Zenon DEF WorkerRec, Consistent, Captures
<1> HIDE DEF g
<1>5. HostInv(g, P)
    BY <1>3, <1>4, ChangeWorker, Zenon
<1>6. QED
    BY <1>3, <1>4, <1>5, Zenon DEF g

(***************************************************************************)
(* The last step of the goroutine leaves a Worker that does not capture.   *)
(***************************************************************************)
LEMMA RemovePidFileFacts ==
    ASSUME NEW P, NEW h, HostInv(h, P), NEW w \in Workers, h.ws[w].go = "unlink"
    PROVE  /\ HostInv(RemovePidFile(h, w), P) /\ Touches(h, RemovePidFile(h, w), w)
           /\ ~Captures(RemovePidFile(h, w).ws[w])
<1> DEFINE g == RemovePidFile(h, w)
<1>1. /\ h \in Host(P) /\ h.ws \in [Workers -> WorkerRec] /\ h.ws[w] \in WorkerRec
      /\ Consistent(h.ws[w]) /\ (Captures(h.ws[w]) => w = h.worker)
    BY WorkerParts, Zenon
<1>2. g.ws[w] = [h.ws[w] EXCEPT !.go = "none", !.unlinks = FALSE]
    BY <1>1, Zenon DEF Host, RemovePidFile
<1>3. g \in Host(P) /\ Touches(h, g, w)
    BY <1>1, ZenonT(40) DEF Host, WorkerRec, Touches, RemovePidFile
<1>4. Consistent(g.ws[w]) /\ ~Captures(g.ws[w])
    BY <1>1, <1>2, Zenon DEF WorkerRec, Consistent, Captures
<1> HIDE DEF g
<1>5. HostInv(g, P)
    BY <1>3, <1>4, ChangeWorker, Zenon
<1>6. QED
    BY <1>3, <1>4, <1>5, Zenon DEF g

(***************************************************************************)
(* The goroutine run to its end.                                           *)
(***************************************************************************)
LEMMA FinishedFacts ==
    ASSUME NEW P, NEW h, HostInv(h, P), NEW w \in Workers, h.ws[w].cmd,
           NEW g \in Finished(h, w)
    PROVE  HostInv(g, P) /\ Touches(h, g, w) /\ ~Captures(g.ws[w])
<1> DEFINE waiting == IF h.ws[w].go = "pidfile" THEN CreatePidFile(h, w) ELSE {h}
           cleaned(k) == IF k.ws[w].handle THEN RemoveCgroup(Reap(k, w), w) ELSE Reap(k, w)
<1>1. PICK k \in waiting : g = RemovePidFile(cleaned(k), w)
    BY Zenon DEF Finished
<1>2. HostInv(k, P) /\ Touches(h, k, w) /\ k.ws[w].cmd
    BY CreatePidFileFacts, Zenon DEF Touches
<1>3. /\ HostInv(Reap(k, w), P) /\ Touches(k, Reap(k, w), w)
      /\ Reap(k, w).ws[w].go = IF k.ws[w].handle THEN "cgroup" ELSE "unlink"
    BY <1>2, ReapFacts, Zenon
<1>4. HostInv(cleaned(k), P) /\ Touches(k, cleaned(k), w) /\ cleaned(k).ws[w].go = "unlink"
    BY <1>3, RemoveCgroupFacts DEF Touches
<1>5. HostInv(g, P) /\ Touches(cleaned(k), g, w) /\ ~Captures(g.ws[w])
    BY <1>1, <1>4, RemovePidFileFacts, Zenon
<1>6. QED
    BY <1>2, <1>4, <1>5 DEF Touches

(***************************************************************************)
(* Stop and Kill end the capture, also when they do not wait for the end   *)
(* of the process.                                                         *)
(***************************************************************************)
LEMMA KillProcessFacts ==
    ASSUME NEW P, NEW h, HostInv(h, P), NEW w \in Workers, h.ws[w].cmd,
           NEW g \in KillProcess(h, w)
    PROVE  HostInv(g, P) /\ Touches(h, g, w) /\ ~Captures(g.ws[w])
<1> DEFINE k == [h EXCEPT !.ws[w].os = IF @ = "running" THEN "killed" ELSE @]
<1>1. /\ h \in Host(P) /\ h.ws \in [Workers -> WorkerRec] /\ h.ws[w] \in WorkerRec
      /\ Consistent(h.ws[w]) /\ (Captures(h.ws[w]) => w = h.worker)
    BY WorkerParts, Zenon
<1>2. k.ws[w] = [h.ws[w] EXCEPT !.os = IF @ = "running" THEN "killed" ELSE @]
    BY <1>1, Zenon DEF Host
<1>3. k \in Host(P) /\ Touches(h, k, w) /\ k.events = h.events
    BY <1>1, ZenonT(40) DEF Host, WorkerRec, Touches
<1>4. Consistent(k.ws[w]) /\ ~Captures(k.ws[w])
    BY <1>1, <1>2 DEF WorkerRec, Consistent, Captures
<1>5. g \in Finished(h, w) \/ (h.events > 0 /\ g = Spend(k))
    BY Zenon DEF KillProcess, Happens
<1> HIDE DEF k
<1>6. HostInv(k, P)
    BY <1>3, <1>4, ChangeWorker, Zenon
<1>7. ASSUME h.events > 0, g = Spend(k)
      PROVE  HostInv(g, P) /\ Touches(h, g, w) /\ ~Captures(g.ws[w])
  <2>1. MayFail(k, g)
    BY <1>3, <1>7, Zenon DEF MayFail
  <2>2. QED
    BY <1>3, <1>4, <1>6, <2>1, SpendFacts DEF Touches
<1>8. QED
    BY <1>5, <1>7, FinishedFacts, Zenon

(***************************************************************************)
(* Stop and Kill leave a Worker that does not capture, whichever way they  *)
(* end.                                                                    *)
(***************************************************************************)
LEMMA WorkerStopFacts ==
    ASSUME NEW P, NEW h, HostInv(h, P), NEW w \in Workers,
           NEW g \in WorkerStop(h, w) \cup WorkerKill(h, w)
    PROVE  /\ HostInv(g, P) /\ Touches(h, g, w) /\ ~Captures(g.ws[w])
           /\ CanStart(h) => CanStart(g)
<1>1. CASE ~h.ws[w].cmd
  <2>1. g = h
    BY <1>1, Zenon DEF WorkerStop, WorkerKill
  <2>2. QED
    BY <1>1, <2>1, WorkerParts, Zenon DEF Touches, Consistent, Captures, WorkerRec
<1>2. CASE h.ws[w].cmd
  <2>1. HostInv(g, P) /\ Touches(h, g, w) /\ ~Captures(g.ws[w])
    BY <1>2, FinishedFacts, KillProcessFacts, Zenon DEF WorkerStop, WorkerKill
  <2>2. ASSUME NEW v \in Workers, Idle(h, v)
        PROVE  Idle(g, v)
    BY <1>2, <2>1, <2>2, WorkerParts, WorkersAssumption DEF Idle, Touches, Consistent, NoWorker
  <2>3. QED
    BY <2>1, <2>2, Zenon DEF CanStart
<1>3. QED
    BY <1>1, <1>2, Zenon

-----------------------------------------------------------------------------
(***************************************************************************)
(* The worker manager.                                                     *)
(***************************************************************************)
LEMMA ResetFacts ==
    ASSUME NEW P, NEW h, HostInv(h, P), Quiet(h)
    PROVE  /\ HostInv(ResetManager(h), P) /\ Quiet(ResetManager(h))
           /\ ResetManager(h).worker = NoWorker /\ ResetManager(h).fuse = h.fuse
           /\ CanStart(h) => CanStart(ResetManager(h))
<1> DEFINE g == ResetManager(h)
<1>1. g \in Host(P) /\ g.ws = h.ws /\ g.worker = NoWorker /\ g.fuse = h.fuse /\ g.pidFile = h.pidFile
    BY Zenon DEF HostInv, Host, ResetManager
<1> HIDE DEF g
<1>2. HostInv(g, P) /\ Quiet(g) /\ (CanStart(h) => CanStart(g))
    BY <1>1, Zenon DEF HostInv, Quiet, CanStart, Idle
<1>3. QED
    BY <1>1, <1>2, Zenon DEF g

(***************************************************************************)
(* Without a worker nothing captures.                                      *)
(***************************************************************************)
LEMMA NoWorkerQuiet ==
    ASSUME NEW P, NEW h, HostInv(h, P), h.worker = NoWorker
    PROVE  Quiet(h)
BY WorkersAssumption, Zenon DEF HostInv, Quiet

(***************************************************************************)
(* A worker that is not alive does not capture.                            *)
(***************************************************************************)
LEMMA DeadQuiet ==
    ASSUME NEW P, NEW h, HostInv(h, P), ~IsAlive(h)
    PROVE  Quiet(h)
<1> SUFFICES ASSUME NEW w \in Workers, Captures(h.ws[w])
             PROVE  FALSE
    BY Zenon DEF Quiet
<1>1. /\ h.ws[w] \in WorkerRec /\ Consistent(h.ws[w])
      /\ w = h.worker
    BY WorkerParts, Zenon
<1>2. QED
    BY <1>1, WorkersAssumption, Zenon DEF IsAlive, WorkerAlive, Consistent, Captures, WorkerRec

(***************************************************************************)
(* After the manager stopped or killed its worker it has none and none     *)
(* captures.                                                               *)
(***************************************************************************)
LEMMA StopWorkerFacts ==
    ASSUME NEW P, NEW h, HostInv(h, P), NEW g \in StopWorker(h) \cup KillWorker(h)
    PROVE  /\ HostInv(g, P) /\ Quiet(g) /\ g.worker = NoWorker /\ g.fuse = h.fuse
           /\ CanStart(h) => CanStart(g)
<1>1. CASE h.worker = NoWorker
    BY <1>1, NoWorkerQuiet, Zenon DEF StopWorker, KillWorker
<1>2. CASE h.worker # NoWorker
  <2>1. h.worker \in Workers
    BY <1>2, Zenon DEF HostInv, Host
  <2>2. PICK k \in WorkerStop(h, h.worker) \cup WorkerKill(h, h.worker) : g = ResetManager(k)
    BY <1>2, Zenon DEF StopWorker, KillWorker
  <2>3. /\ HostInv(k, P) /\ Touches(h, k, h.worker) /\ ~Captures(k.ws[h.worker])
        /\ CanStart(h) => CanStart(k)
    BY <2>1, WorkerStopFacts, Zenon
  <2>4. Quiet(k) /\ k.fuse = h.fuse
    BY <2>1, <2>3, Zenon DEF Quiet, HostInv, Touches
  <2>5. QED
    BY <2>2, <2>3, <2>4, ResetFacts, Zenon
<1>3. QED
    BY <1>1, <1>2, Zenon

(***************************************************************************)
(* Setting the cpu limit, and stopping the worker when that fails.         *)
(***************************************************************************)
LEMMA CreateProcessLimitFacts ==
    ASSUME NEW P, NEW h, HostInv(h, P), NEW w \in Workers, h.ws[w].cmd,
           NEW g \in {CreateProcessLimit(h, w).ok} \cup CreateProcessLimit(h, w).failed
    PROVE  HostInv(g, P) /\ g.fuse = h.fuse /\ g.worker = h.worker /\ g.current = h.current
<1> DEFINE made == [h EXCEPT !.ws[w].dir = IF @ = "none" THEN "unowned" ELSE @]
           done == [made EXCEPT !.ws[w].dir = "limited", !.ws[w].handle = TRUE]
<1>1. /\ h \in Host(P) /\ h.ws \in [Workers -> WorkerRec] /\ h.ws[w] \in WorkerRec
      /\ Consistent(h.ws[w]) /\ (Captures(h.ws[w]) => w = h.worker)
    BY WorkerParts, Zenon
<1>2. made.ws[w] = [h.ws[w] EXCEPT !.dir = IF @ = "none" THEN "unowned" ELSE @]
    BY <1>1, Zenon DEF Host
<1>3. made \in Host(P) /\ Touches(h, made, w) /\ made.events = h.events
    BY <1>1, ZenonT(40) DEF Host, WorkerRec, Touches
<1>4. /\ Consistent(made.ws[w]) /\ (Captures(made.ws[w]) => w = h.worker)
      /\ made.ws[w].cmd /\ made.ws[w].go = h.ws[w].go
    BY <1>1, <1>2 DEF WorkerRec, Consistent, Captures
<1>5. g = done \/ (h.events > 0 /\ g \in {Spend(h), Spend(made)})
    BY Zenon DEF CreateProcessLimit, CreateCgroup, Happens
<1> HIDE DEF made
<1>6. HostInv(made, P)
    BY <1>3, <1>4, ChangeWorker, Zenon
<1>7. /\ made.ws \in [Workers -> WorkerRec] /\ made.ws[w] \in WorkerRec
    BY <1>6, WorkerParts, Zenon
<1>8. done.ws[w] = [made.ws[w] EXCEPT !.dir = "limited", !.handle = TRUE]
    BY <1>3, <1>7, Zenon DEF Host
<1>9. done \in Host(P) /\ Touches(made, done, w)
    BY <1>3, <1>7, Zenon DEF Host, WorkerRec, Touches
<1>10. Consistent(done.ws[w]) /\ (Captures(done.ws[w]) => w = made.worker)
    BY <1>3, <1>4, <1>7, <1>8 DEF WorkerRec, Consistent, Captures, Touches
<1> HIDE DEF done
<1>11. HostInv(done, P)
    BY <1>6, <1>9, <1>10, ChangeWorker, Zenon
<1>12. g = done \/ MayFail(h, g) \/ MayFail(made, g)
    BY <1>3, <1>5, Zenon DEF MayFail
<1>13. QED
    BY <1>3, <1>6, <1>9, <1>11, <1>12, SpendFacts DEF Touches

(***************************************************************************)
(* A new limit, given or failed, leaves the cgroup with a handle or        *)
(* unowned.                                                                *)
(***************************************************************************)
LEMMA UpdateResLimitFacts ==
    ASSUME NEW P, NEW h, HostInv(h, P), NEW w \in Workers, NEW limited,
           NEW g \in {UpdateResLimit(h, w, limited).ok} \cup UpdateResLimit(h, w, limited).failed
    PROVE  HostInv(g, P) /\ g.fuse = h.fuse /\ g.worker = h.worker /\ g.current = h.current
<1>1. CASE ~limited
  <2>1. MayFail(h, g)
    BY <1>1, Zenon DEF UpdateResLimit, Happens, MayFail
  <2>2. QED
    BY <2>1, SpendFacts
<1>2. CASE limited /\ ~h.ws[w].cmd
  <2> DEFINE k == [h EXCEPT !.ws[w].handle = FALSE]
  <2>1. g = k
    BY <1>2, Zenon DEF UpdateResLimit
  <2>2. /\ h \in Host(P) /\ h.ws \in [Workers -> WorkerRec] /\ h.ws[w] \in WorkerRec
        /\ Consistent(h.ws[w]) /\ (Captures(h.ws[w]) => w = h.worker)
    BY WorkerParts, Zenon
  <2>3. k.ws[w] = [h.ws[w] EXCEPT !.handle = FALSE]
    BY <2>2, Zenon DEF Host
  <2>4. k \in Host(P) /\ Touches(h, k, w)
    BY <2>2, Zenon DEF Host, WorkerRec, Touches
  <2>5. Consistent(k.ws[w]) /\ (Captures(k.ws[w]) => w = h.worker)
    BY <1>2, <2>2, <2>3 DEF WorkerRec, Consistent, Captures
  <2> HIDE DEF k
  <2>6. QED
    BY <2>1, <2>4, <2>5, ChangeWorker, Zenon DEF Touches
<1>3. CASE limited /\ h.ws[w].cmd
  <2>1. UpdateResLimit(h, w, limited) = CreateProcessLimit(h, w)
    BY <1>3, Zenon DEF UpdateResLimit
  <2>2. g \in {CreateProcessLimit(h, w).ok} \cup CreateProcessLimit(h, w).failed
    BY <2>1, Zenon
  <2>3. h.ws[w].cmd
    BY <1>3, Zenon
  <2>4. QED
    BY <2>2, <2>3, CreateProcessLimitFacts
<1>4. QED
    BY <1>1, <1>2, <1>3, Zenon

(***************************************************************************)
(* The last part of an apply never refuses.  When it fails nothing         *)
(* captures.                                                               *)
(***************************************************************************)
LEMMA LimitFacts ==
    ASSUME NEW P, NEW h, HostInv(h, P), h.worker \in Workers, NEW strat,
           NEW r \in Limit(h, strat)
    PROVE  /\ HostInv(r.host, P) /\ r.host.fuse = h.fuse /\ r.err \in {"none", "failed"}
           /\ r.err = "none" => r.host.current = h.current
           /\ r.err = "failed" => Quiet(r.host)
<1> DEFINE u == UpdateResLimit(h, h.worker, Strategies[strat].limited)
<1>1. CASE r = Outcome(u.ok, "none")
    BY <1>1, UpdateResLimitFacts DEF Outcome
<1>2. CASE r \in Failed(UNION {WorkerStop(g, h.worker) : g \in u.failed})
  <2>1. PICK g \in u.failed : \E k \in WorkerStop(g, h.worker) : r = Outcome(k, "failed")
    BY <1>2, Zenon DEF Failed
  <2>2. PICK k \in WorkerStop(g, h.worker) : r = Outcome(k, "failed")
    BY <2>1, Zenon
  <2>3. HostInv(g, P) /\ g.fuse = h.fuse /\ g.worker = h.worker
    BY UpdateResLimitFacts
  <2>4. /\ HostInv(k, P) /\ k.fuse = h.fuse /\ k.worker = h.worker
        /\ ~Captures(k.ws[h.worker])
    BY <2>3, WorkerStopFacts DEF Touches
  <2>5. Quiet(k)
    BY <2>4, Zenon DEF Quiet, HostInv
  <2>6. QED
    BY <2>2, <2>4, <2>5, Zenon DEF Outcome
<1>3. QED
    BY <1>1, <1>2, Zenon DEF Limit

(***************************************************************************)
(* The tasks of a strategy, and a start gate that allows a start only when *)
(* the fuse is not active after it.                                        *)
(***************************************************************************)
LEMMA BuildFacts ==
    ASSUME NEW P, NEW h, HostInv(h, P), NEW strat \in DOMAIN Strategies, NEW act,
           NEW b \in BuildTasks(h, strat, act)
    PROVE  /\ MayFail(h, b.host) /\ b.tasks \subseteq Tasks
           /\ ~b.err => b.tasks \in {{}, Items(strat, act)}
<1>1. Items(strat, act) \subseteq Tasks
    BY StrategiesAssumption, Zenon DEF Items
<1>2. \/ b = [host |-> h, tasks |-> {}, err |-> TRUE]
      \/ b = [host |-> h, tasks |-> Items(strat, act), err |-> FALSE]
      \/ h.events > 0 /\ b = [host |-> Spend(h), tasks |-> {}, err |-> FALSE]
    BY Zenon DEF BuildTasks, Happens
<1>3. QED
    BY <1>1, <1>2 DEF MayFail

(***************************************************************************)
(* A trip gives the fuse its round.                                        *)
(***************************************************************************)
LEMMA TripFacts ==
    ASSUME NEW f \in Fuse, NEW n \in Nat
    PROVE  Trip(f, n) \in FuseRec /\ Trip(f, n).state = "tripped" /\ Trip(f, n).snap = n
BY Zenon DEF Trip, FuseRec, Fuse, FuseStates, Active

(***************************************************************************)
(* The start gate: a start that is allowed has a fuse that is not active.  *)
(***************************************************************************)
LEMMA AllowFacts ==
    ASSUME NEW P, NEW h, HostInv(h, P), NEW new, NEW a \in Allow(h, new)
    PROVE  /\ HostInv(a.host, P) /\ a.host.ws = h.ws /\ a.host.worker = h.worker
           /\ a.host.current = h.current
           /\ CanStart(h) => CanStart(a.host)
           /\ a.ok => ~Active(a.host.fuse)
<1> DEFINE f(avail) == BeforeStart(h.fuse, new, avail, h.clock + 1)
           k(avail) == [h EXCEPT !.fuse = f(avail),
                                 !.clock = IF f(avail) = h.fuse THEN @ ELSE @ + 1]
           passes(avail) == BeforeStartPasses(h.fuse, new, avail)
<1>1. /\ h \in Host(P) /\ h.fuse \in FuseRec /\ h.fuse \in Fuse /\ h.clock \in Nat
      /\ h.fuse.snap <= h.clock
    BY Zenon DEF HostInv, Host, FuseRec
<1>2. ASSUME NEW avail
      PROVE  /\ f(avail) \in FuseRec /\ (f(avail) # h.fuse => f(avail).snap = h.clock + 1)
             /\ h.fuse.state = "armed" /\ passes(avail) => f(avail) = h.fuse
  <2>1. f(avail) \in {h.fuse, Trip(h.fuse, h.clock + 1)}
    BY Zenon DEF BeforeStart
  <2>2. Trip(h.fuse, h.clock + 1) \in FuseRec /\ Trip(h.fuse, h.clock + 1).snap = h.clock + 1
    <3>1. h.clock + 1 \in Nat
      BY <1>1
    <3>2. QED
      BY <1>1, <3>1, TripFacts, Zenon
  <2>3. h.fuse.state = "armed" /\ passes(avail) => f(avail) = h.fuse
    BY Zenon DEF BeforeStart
  <2>4. QED
    BY <1>1, <2>1, <2>2, <2>3, Zenon
<1> HIDE DEF f
<1>3. ASSUME NEW avail
      PROVE  /\ HostInv(k(avail), P) /\ k(avail).ws = h.ws /\ k(avail).worker = h.worker
             /\ k(avail).fuse = f(avail) /\ k(avail).pidFile = h.pidFile
             /\ k(avail).current = h.current
  <2>1. /\ k(avail) \in Host(P) /\ k(avail).ws = h.ws /\ k(avail).worker = h.worker
        /\ k(avail).fuse = f(avail) /\ k(avail).pidFile = h.pidFile
             /\ k(avail).current = h.current
    <3> DEFINE c == IF f(avail) = h.fuse THEN h.clock ELSE h.clock + 1
    <3>1. c \in Nat /\ k(avail) = [h EXCEPT !.fuse = f(avail), !.clock = c]
      BY <1>1
    <3>2. f(avail) \in FuseRec /\ f(avail).snap <= c
      BY <1>1, <1>2
    <3> HIDE DEF c, k
    <3>3. QED
      BY <1>1, <3>1, <3>2, Zenon DEF Host
  <2> HIDE DEF k
  <2>2. QED
    BY <2>1, Zenon DEF HostInv
<1>4. \/ a = [host |-> h, ok |-> TRUE] /\ h.fuse.state = "disabled"
      \/ a = [host |-> h, ok |-> FALSE]
      \/ h.fuse.state = "armed" /\ \E avail : a = [host |-> k(avail), ok |-> passes(avail)]
      \/ h.events > 0 /\ a = [host |-> Spend(h), ok |-> TRUE] /\ h.fuse.state = "armed"
    BY <1>1, Zenon DEF Allow, Happens, Active, Fuse, FuseStates, f
<1> HIDE DEF k, passes
<1>5. CASE a = [host |-> h, ok |-> TRUE] /\ h.fuse.state = "disabled"
    BY <1>5, Zenon DEF Active
<1>6. CASE a = [host |-> h, ok |-> FALSE]
    BY <1>6, Zenon
<1>7. CASE h.fuse.state = "armed" /\ \E avail : a = [host |-> k(avail), ok |-> passes(avail)]
  <2>1. PICK avail : a = [host |-> k(avail), ok |-> passes(avail)]
    BY <1>7, Zenon
  <2>2. a.ok => ~Active(k(avail).fuse)
    BY <1>2, <1>3, <1>7, <2>1, Zenon DEF Active
  <2>3. QED
    BY <1>3, <2>1, <2>2, Zenon DEF CanStart, Idle
<1>8. CASE h.events > 0 /\ a = [host |-> Spend(h), ok |-> TRUE] /\ h.fuse.state = "armed"
  <2>1. MayFail(h, a.host) /\ a.ok
    BY <1>8, Zenon DEF MayFail
  <2>2. QED
    BY <1>8, <2>1, SpendFacts DEF Active, CanStart, Idle
<1>9. QED
    BY <1>4, <1>5, <1>6, <1>7, <1>8, Zenon

(***************************************************************************)
(* A worker is started only when nothing captures.                         *)
(***************************************************************************)
LEMMA StartedFacts ==
    ASSUME NEW P, NEW h, HostInv(h, P), Quiet(h), NEW w \in Workers, NEW tasks \in SUBSET Tasks
    PROVE  LET g == Started(h, w, tasks)
           IN HostInv(g, P) /\ g.worker = w /\ g.fuse = h.fuse /\ g.current = tasks
<1> DEFINE r == [NoProcess EXCEPT !.os = "running", !.cmd = TRUE, !.go = "pidfile", !.runs = tasks]
           g == Started(h, w, tasks)
<1>1. r \in WorkerRec /\ Consistent(r)
    BY Zenon DEF WorkerRec, NoProcess, Consistent
<1>2. h \in Host(P) /\ h.ws \in [Workers -> WorkerRec]
    BY Zenon DEF HostInv, Host
<1>3. g = [h EXCEPT !.config = tasks, !.ws[w] = r, !.worker = w, !.current = tasks]
    BY <1>2, Zenon DEF Started, Held, Recorded, Start, StartProcess, UpdateConfig, Host
<1> HIDE DEF r, g
<1>4. /\ g \in Host(P) /\ g.worker = w /\ g.fuse = h.fuse /\ g.ws[w] = r /\ g.current = tasks
      /\ \A v \in Workers : v # w => g.ws[v] = h.ws[v]
  <2>1. g.ws = [h.ws EXCEPT ![w] = r]
    BY <1>2, <1>3, Zenon DEF Host
  <2>2. g = [h EXCEPT !.config = tasks, !.ws = g.ws, !.worker = w, !.current = tasks]
    BY <1>2, <1>3, Zenon DEF Host
  <2>3. g.ws \in [Workers -> WorkerRec]
    BY <1>1, <1>2, <2>1, Zenon
  <2>4. QED
    BY <1>1, <1>2, <2>1, <2>2, <2>3, ZenonT(40) DEF Host
<1>5. HostInv(g, P)
    BY <1>1, <1>4, Zenon DEF HostInv, Quiet
<1>6. QED
    BY <1>4, <1>5, Zenon DEF g

(***************************************************************************)
(* A manager that holds a worker it could not start.                       *)
(***************************************************************************)
LEMMA HeldFacts ==
    ASSUME NEW P, NEW h, HostInv(h, P), Quiet(h), NEW w \in Workers
    PROVE  HostInv(Held(h, w), P) /\ Held(h, w).fuse = h.fuse /\ Quiet(Held(h, w))
<1> DEFINE g == Held(h, w)
<1>1. g \in Host(P) /\ g.ws = h.ws /\ g.fuse = h.fuse
    BY Zenon DEF HostInv, Host, Held
<1> HIDE DEF g
<1>2. HostInv(g, P) /\ Quiet(g)
    BY <1>1, Zenon DEF HostInv, Quiet
<1>3. QED
    BY <1>1, <1>2, Zenon DEF g

(***************************************************************************)
(* The configuration file alone changes.                                   *)
(***************************************************************************)
LEMMA UpdateConfigFacts ==
    ASSUME NEW P, NEW h, HostInv(h, P), NEW tasks \in SUBSET Tasks
    PROVE  LET g == UpdateConfig(h, tasks)
           IN /\ HostInv(g, P) /\ g.ws = h.ws /\ g.fuse = h.fuse /\ g.worker = h.worker
              /\ g.current = h.current /\ g.events = h.events
<1> DEFINE g == UpdateConfig(h, tasks)
<1>1. /\ g \in Host(P) /\ g.ws = h.ws /\ g.fuse = h.fuse /\ g.worker = h.worker
      /\ g.current = h.current /\ g.events = h.events
    BY Zenon DEF HostInv, Host, UpdateConfig
<1> HIDE DEF g
<1>2. HostInv(g, P)
    BY <1>1, Zenon DEF HostInv
<1>3. QED
    BY <1>1, <1>2, Zenon DEF g

(***************************************************************************)
(* A start made while nothing captures: the worker has the task set, or    *)
(* the start failed and nothing captures.                                  *)
(***************************************************************************)
LEMMA StartWorkerFacts ==
    ASSUME NEW P, NEW h, HostInv(h, P), Quiet(h), CanStart(h),
           NEW strat, NEW tasks \in SUBSET Tasks, NEW r \in StartWorker(h, strat, tasks)
    PROVE  /\ HostInv(r.host, P) /\ r.host.fuse = h.fuse /\ r.err \in {"none", "failed"}
           /\ r.err = "none" => r.host.current = tasks
           /\ r.err = "failed" => Quiet(r.host)
<1> DEFINE w == CHOOSE v \in Workers : Idle(h, v)
           failed == {Held(g, w) : g \in Start(h, w, tasks).failed} \cup Happens(h, {h})
<1>1. w \in Workers
    BY Zenon DEF CanStart
<1>2. r \in Limit(Started(h, w, tasks), strat) \/ r \in Failed(failed)
    BY Zenon DEF StartWorker
<1> HIDE DEF w
<1>3. CASE r \in Limit(Started(h, w, tasks), strat)
  <2>1. PICK g : g = Started(h, w, tasks)
    OBVIOUS
  <2>2. HostInv(g, P) /\ g.worker = w /\ g.fuse = h.fuse /\ g.current = tasks
    BY <1>1, <2>1, StartedFacts
  <2>3. r \in Limit(g, strat)
    BY <1>3, <2>1, Zenon
  <2>4. QED
    BY <1>1, <2>2, <2>3, LimitFacts
<1>4. CASE r \in Failed(failed)
  <2>1. PICK k \in failed : r = Outcome(k, "failed")
    BY <1>4, Zenon DEF Failed
  <2>2. /\ h.events > 0
        /\ \/ k = Spend(h)
           \/ \E g \in {Spend(h), Spend(UpdateConfig(h, tasks))} : k = Held(g, w)
    BY <2>1, Zenon DEF Start, Happens
  <2>3. \A g \in {Spend(h), Spend(UpdateConfig(h, tasks))} :
            HostInv(g, P) /\ Quiet(g) /\ g.fuse = h.fuse
    <3>1. MayFail(h, Spend(h)) /\ MayFail(UpdateConfig(h, tasks), Spend(UpdateConfig(h, tasks)))
      BY <2>2, UpdateConfigFacts, Zenon DEF MayFail
    <3>2. QED
      BY <3>1, SpendFacts, UpdateConfigFacts DEF Quiet
  <2>4. HostInv(k, P) /\ k.fuse = h.fuse /\ Quiet(k)
    BY <1>1, <2>2, <2>3, HeldFacts, Zenon
  <2>5. QED
    BY <2>1, <2>4, Zenon DEF Outcome
<1>5. QED
    BY <1>2, <1>3, <1>4, Zenon

(***************************************************************************)
(* Creating and updating.  A refusal may leave a tripped fuse and a worker *)
(* that captures, for the trip that follows; nothing else does.            *)
(***************************************************************************)
Kept(r, P) ==
    /\ HostInv(r.host, P)
    /\ r.err # "refused" => FuseInv(r.host)

(***************************************************************************)
(* A call that succeeds leaves a worker that was given the items, or none  *)
(* that captures; one that fails leaves no worker with other tasks than    *)
(* the one it found.                                                       *)
(***************************************************************************)
Gives(r, h, items) ==
    /\ r.err \in {"none", "failed", "refused"}
    /\ r.err = "none" => Quiet(r.host) \/ r.host.current = items
    /\ r.err = "failed" => Still(h, r.host)

(***************************************************************************)
(* createUnlocked: unless it refuses, the fuse is as it should be.         *)
(***************************************************************************)
LEMMA CreateFacts ==
    ASSUME NEW P, NEW h, HostInv(h, P), FuseInv(h), CanStart(h),
           NEW strat \in DOMAIN Strategies, NEW act, NEW r \in CreateUnlocked(h, strat, act)
    PROVE  Kept(r, P) /\ Gives(r, h, Items(strat, act))
<1> DEFINE items == Items(strat, act)
<1>1. CASE h.worker # NoWorker
  <2>1. r = Outcome(h, "failed")
    BY <1>1, Zenon DEF CreateUnlocked, Failed
  <2>2. QED
    BY <2>1, Zenon DEF Outcome, Kept, Gives, Still
<1>2. CASE h.worker = NoWorker
  <2>1. PICK b \in BuildTasks(h, strat, act) :
            \/ r = Outcome(b.host, "failed")
            \/ r = Outcome(b.host, "none")
            \/ ~b.err /\ b.tasks # {} /\
               \E a \in Allow(b.host, RingCfg(b.tasks)) :
                  \/ a.ok /\ r \in StartWorker(a.host, strat, b.tasks)
                  \/ r = Outcome(a.host, "refused")
    BY <1>2 DEF CreateUnlocked, Failed
  <2>2. /\ HostInv(b.host, P) /\ Quiet(b.host) /\ CanStart(b.host) /\ FuseInv(b.host)
        /\ b.tasks \in SUBSET Tasks
        /\ ~b.err /\ b.tasks # {} => b.tasks = items
    <3>1. /\ MayFail(h, b.host) /\ b.tasks \subseteq Tasks
          /\ ~b.err => b.tasks \in {{}, Items(strat, act)}
      BY BuildFacts, Zenon
    <3>2. /\ HostInv(b.host, P) /\ Quiet(b.host) /\ CanStart(b.host) /\ FuseInv(b.host)
      BY <1>2, <3>1, NoWorkerQuiet, SpendFacts DEF Quiet, CanStart, Idle, FuseInv
    <3>3. QED
      BY <3>1, <3>2, Zenon
  <2> HIDE DEF items
  <2>3. CASE r = Outcome(b.host, "failed") \/ r = Outcome(b.host, "none")
    BY <2>2, <2>3 DEF Outcome, Kept, Gives, Still, items
  <2>4. ASSUME ~b.err, b.tasks # {}, NEW a \in Allow(b.host, RingCfg(b.tasks)), a.ok,
               r \in StartWorker(a.host, strat, b.tasks)
        PROVE  Kept(r, P) /\ Gives(r, h, items)
    <3>1. HostInv(a.host, P) /\ Quiet(a.host) /\ CanStart(a.host) /\ ~Active(a.host.fuse)
      BY <2>2, <2>4, AllowFacts DEF Quiet
    <3>2. /\ HostInv(r.host, P) /\ r.host.fuse = a.host.fuse /\ r.err \in {"none", "failed"}
          /\ r.err = "none" => r.host.current = b.tasks
          /\ r.err = "failed" => Quiet(r.host)
      BY <2>2, <2>4, <3>1, StartWorkerFacts, Zenon
    <3>3. QED
      BY <2>2, <2>4, <3>1, <3>2, Zenon DEF Kept, FuseInv, Gives, Still
  <2>5. ASSUME NEW a \in Allow(b.host, RingCfg(b.tasks)), r = Outcome(a.host, "refused")
        PROVE  Kept(r, P) /\ Gives(r, h, items)
    BY <2>2, <2>5, AllowFacts, Zenon DEF Kept, Outcome, Gives
  <2>6. QED
    BY <2>1, <2>3, <2>4, <2>5, Zenon DEF items
<1>3. QED
    BY <1>1, <1>2, Zenon

(***************************************************************************)
(* CreateIfDead forgets only a worker that does not capture.               *)
(***************************************************************************)
LEMMA CreateIfDeadFacts ==
    ASSUME NEW P, NEW h, HostInv(h, P), FuseInv(h), CanStart(h),
           NEW strat \in DOMAIN Strategies, NEW act, NEW r \in CreateIfDead(h, strat, act)
    PROVE  Kept(r, P) /\ Gives(r, h, Items(strat, act))
<1>1. CASE IsAlive(h)
  <2>1. r = Outcome(h, "failed")
    BY <1>1, Zenon DEF CreateIfDead, Failed
  <2>2. QED
    BY <2>1 DEF Outcome, Kept, Gives, Still
<1>2. CASE ~IsAlive(h)
  <2>1. PICK g : g = ResetManager(h)
    OBVIOUS
  <2>2. r \in CreateUnlocked(g, strat, act)
    BY <1>2, <2>1, Zenon DEF CreateIfDead
  <2>3. HostInv(g, P) /\ FuseInv(g) /\ CanStart(g) /\ Quiet(g)
    BY <1>2, <2>1, DeadQuiet, ResetFacts, Zenon DEF FuseInv
  <2>4. Kept(r, P) /\ Gives(r, g, Items(strat, act))
    BY <2>2, <2>3, CreateFacts, Zenon
  <2>5. QED
    BY <2>3, <2>4, Zenon DEF Gives, Still
<1>3. QED
    BY <1>1, <1>2, Zenon

(***************************************************************************)
(* The reload command.                                                     *)
(***************************************************************************)
LEMMA ReloadCommandFacts ==
    ASSUME NEW P, NEW h, HostInv(h, P), NEW w \in Workers,
           NEW g \in ReloadCommand(h, w).ok \cup ReloadCommand(h, w).failed
    PROVE  /\ HostInv(g, P) /\ g.fuse = h.fuse /\ g.worker = h.worker
           /\ Still(h, g)
<1> DEFINE done == [h EXCEPT !.ws[w].reload = TRUE]
<1>1. /\ h \in Host(P) /\ h.ws \in [Workers -> WorkerRec] /\ h.ws[w] \in WorkerRec
      /\ Consistent(h.ws[w]) /\ (Captures(h.ws[w]) => w = h.worker)
    BY WorkerParts, Zenon
<1>2. done.ws[w] = [h.ws[w] EXCEPT !.reload = TRUE]
    BY <1>1, Zenon DEF Host
<1>3. done \in Host(P) /\ Touches(h, done, w) /\ done.events = h.events
    BY <1>1, Zenon DEF Host, WorkerRec, Touches
<1>4. Consistent(done.ws[w]) /\ (Captures(done.ws[w]) <=> Captures(h.ws[w]))
    BY <1>1, <1>2 DEF WorkerRec, Consistent, Captures
<1>5. g \in {h, done} \/ (h.events > 0 /\ g \in {Spend(h), Spend(done)})
    BY Zenon DEF ReloadCommand, Happens
<1> HIDE DEF done
<1>6. HostInv(done, P) /\ done.fuse = h.fuse /\ done.worker = h.worker
    BY <1>1, <1>3, <1>4, ChangeWorker, Zenon DEF Touches
<1>7. Still(h, done) /\ Still(h, h)
    BY <1>3, <1>4, Zenon DEF Still, Quiet, Touches
<1>8. MayFail(h, g) \/ MayFail(done, g)
    BY <1>3, <1>5, Zenon DEF MayFail
<1>9. \A k : HostInv(k, P) /\ Still(h, k) /\ MayFail(k, g) => Still(h, g)
    BY SpendFacts DEF Still, Quiet
<1>10. QED
    BY <1>6, <1>7, <1>8, <1>9, SpendFacts

(***************************************************************************)
(* A reload that the gate allowed, or did not see.                         *)
(***************************************************************************)
LEMMA ReloadAppliedFacts ==
    ASSUME NEW P, NEW h, HostInv(h, P), h.worker \in Workers,
           NEW strat, NEW tasks \in SUBSET Tasks, NEW r \in ReloadApplied(h, strat, tasks)
    PROVE  HostInv(r.host, P) /\ r.host.fuse = h.fuse /\ r.err \in {"none", "failed"} /\ Gives(r, h, tasks)
<1> DEFINE c == UpdateConfig(h, tasks)
           cmd == ReloadCommand(c, h.worker)
<1>1. /\ HostInv(c, P) /\ c.ws = h.ws /\ c.fuse = h.fuse /\ c.worker = h.worker
      /\ c.current = h.current
    BY UpdateConfigFacts, Zenon
<1>2. \/ \E k \in cmd.ok : r \in Limit(Recorded(k, tasks), strat)
      \/ \E k \in cmd.failed : r = Outcome(k, "failed")
      \/ h.events > 0 /\ r = Outcome(Spend(h), "failed")
  <2> HIDE DEF cmd
  <2>1. \/ r \in UNION {Limit(Recorded(k, tasks), strat) : k \in cmd.ok}
        \/ r \in Failed(cmd.failed \cup Happens(h, {h}))
    BY Zenon DEF ReloadApplied, cmd
  <2>2. QED
    BY <2>1, Zenon DEF Failed, Happens
<1>3. ASSUME NEW k \in cmd.ok \cup cmd.failed
      PROVE  HostInv(k, P) /\ k.fuse = h.fuse /\ k.worker = h.worker /\ Still(h, k)
  <2> HIDE DEF c
  <2>1. HostInv(k, P) /\ k.fuse = c.fuse /\ k.worker = c.worker /\ Still(c, k)
    BY <1>1, <1>3, ReloadCommandFacts, Zenon
  <2>2. QED
    BY <1>1, <2>1, Zenon DEF Still, Quiet
<1> HIDE DEF cmd
<1>4. ASSUME NEW k \in cmd.ok, r \in Limit(Recorded(k, tasks), strat)
      PROVE  HostInv(r.host, P) /\ r.host.fuse = h.fuse /\ r.err \in {"none", "failed"} /\ Gives(r, h, tasks)
  <2> DEFINE n == Recorded(k, tasks)
  <2>1. HostInv(k, P) /\ k.fuse = h.fuse /\ k.worker = h.worker
    BY <1>3, <1>4, Zenon
  <2>2. n \in Host(P) /\ n.ws = k.ws /\ n.worker = k.worker /\ n.fuse = k.fuse /\ n.current = tasks
    BY <2>1, Zenon DEF HostInv, Host, Recorded
  <2>3. r \in Limit(n, strat)
    BY <1>4, Zenon
  <2> HIDE DEF n
  <2>4. HostInv(n, P)
    BY <2>1, <2>2, Zenon DEF HostInv
  <2>5. /\ HostInv(r.host, P) /\ r.host.fuse = n.fuse /\ r.err \in {"none", "failed"}
        /\ r.err = "none" => r.host.current = n.current
        /\ r.err = "failed" => Quiet(r.host)
    BY <2>1, <2>2, <2>3, <2>4, LimitFacts, Zenon
  <2>6. QED
    BY <2>1, <2>2, <2>5, Zenon DEF Gives, Still
<1>5. ASSUME NEW k \in cmd.failed, r = Outcome(k, "failed")
      PROVE  HostInv(r.host, P) /\ r.host.fuse = h.fuse /\ r.err \in {"none", "failed"} /\ Gives(r, h, tasks)
    BY <1>3, <1>5, Zenon DEF Outcome, Gives
<1>6. CASE h.events > 0 /\ r = Outcome(Spend(h), "failed")
  <2>1. MayFail(h, r.host) /\ r.err = "failed"
    BY <1>6, Zenon DEF MayFail, Outcome
  <2>2. Still(h, r.host)
    BY <2>1, SpendFacts DEF Still, Quiet
  <2>3. QED
    BY <2>1, <2>2, SpendFacts DEF Gives
<1>7. QED
    BY <1>2, <1>4, <1>5, <1>6, Zenon

(***************************************************************************)
(* Update, with either policy: it is called only while the fuse is not     *)
(* active.                                                                 *)
(***************************************************************************)
LEMMA ReloadTasksFacts ==
    ASSUME NEW P, NEW h, HostInv(h, P), ~Active(h.fuse), h.worker \in Workers,
           NEW strat, NEW tasks \in SUBSET Tasks, NEW r \in ReloadTasks(h, strat, tasks)
    PROVE  Kept(r, P) /\ Gives(r, h, tasks)
<1> DEFINE new == NewRingCfg(h.current, tasks)
<1>1. \/ r \in ReloadApplied(h, strat, tasks)
      \/ \E a \in Allow(h, new) : \/ a.ok /\ r \in ReloadApplied(a.host, strat, tasks)
                                  \/ r = Outcome(a.host, "refused")
    BY Zenon DEF ReloadTasks
<1> HIDE DEF new
<1>2. CASE r \in ReloadApplied(h, strat, tasks)
    BY <1>2, ReloadAppliedFacts, Zenon DEF Kept, FuseInv
<1>3. ASSUME NEW a \in Allow(h, new), a.ok, r \in ReloadApplied(a.host, strat, tasks)
      PROVE  Kept(r, P) /\ Gives(r, h, tasks)
  <2>1. /\ HostInv(a.host, P) /\ a.host.worker \in Workers /\ ~Active(a.host.fuse)
        /\ a.host.ws = h.ws /\ a.host.current = h.current
    BY <1>3, AllowFacts
  <2>2. Kept(r, P) /\ Gives(r, a.host, tasks)
    BY <1>3, <2>1, ReloadAppliedFacts DEF Kept, FuseInv
  <2>3. QED
    BY <2>1, <2>2, Zenon DEF Gives, Still, Quiet
<1>4. ASSUME NEW a \in Allow(h, new), r = Outcome(a.host, "refused")
      PROVE  Kept(r, P) /\ Gives(r, h, tasks)
    BY <1>4, AllowFacts, Zenon DEF Outcome, Kept, Gives
<1>5. QED
    BY <1>1, <1>2, <1>3, <1>4, Zenon

(***************************************************************************)
(* reloadConfig: unless it refuses, the fuse is as it should be.           *)
(***************************************************************************)
LEMMA ReloadConfigFacts ==
    ASSUME NEW P, NEW h, HostInv(h, P), ~Active(h.fuse), h.worker \in Workers,
           NEW strat \in DOMAIN Strategies, NEW act, NEW r \in ReloadConfig(h, strat, act)
    PROVE  Kept(r, P) /\ Gives(r, h, Items(strat, act))
<1> DEFINE items == Items(strat, act)
<1>1. PICK b \in BuildTasks(h, strat, act) :
          \/ r = Outcome(b.host, "failed")
          \/ \E g \in StopWorker(b.host) : r = Outcome(g, "none")
          \/ ~b.err /\ b.tasks # {} /\ r \in ReloadTasks(b.host, strat, b.tasks)
    BY Zenon DEF ReloadConfig, Failed
<1>2. /\ HostInv(b.host, P) /\ b.host.fuse = h.fuse /\ b.host.worker = h.worker
      /\ b.host.ws = h.ws /\ b.host.current = h.current
      /\ b.tasks \in SUBSET Tasks
      /\ ~b.err /\ b.tasks # {} => b.tasks = items
    BY BuildFacts, SpendFacts
<1> HIDE DEF items
<1>3. CASE r = Outcome(b.host, "failed")
  <2>1. Still(h, b.host)
    BY <1>2, Zenon DEF Still, Quiet
  <2>2. QED
    BY <1>2, <1>3, <2>1, Zenon DEF Outcome, Kept, FuseInv, Gives
<1>4. ASSUME NEW g \in StopWorker(b.host), r = Outcome(g, "none")
      PROVE  Kept(r, P) /\ Gives(r, h, items)
    BY <1>2, <1>4, StopWorkerFacts, Zenon DEF Outcome, Kept, FuseInv, Gives
<1>5. CASE ~b.err /\ b.tasks # {} /\ r \in ReloadTasks(b.host, strat, b.tasks)
  <2>1. Kept(r, P) /\ Gives(r, b.host, b.tasks)
    BY <1>2, <1>5, ReloadTasksFacts, Zenon
  <2>2. QED
    BY <1>2, <1>5, <2>1, Zenon DEF Gives, Still, Quiet, items
<1>6. QED
    BY <1>1, <1>3, <1>4, <1>5, Zenon DEF items

(***************************************************************************)
(* Update, under both policies, with a fuse that is not active: the worker *)
(* that captures after it has the items, or, when it failed, the tasks it  *)
(* had.                                                                    *)
(***************************************************************************)
LEMMA UpdateFacts ==
    ASSUME NEW P, NEW h, HostInv(h, P), ~Active(h.fuse), CanStart(h),
           NEW strat \in DOMAIN Strategies, NEW act, NEW r \in Update(h, strat, act)
    PROVE  Kept(r, P) /\ Gives(r, h, Items(strat, act))
<1>1. \/ \E g \in StopWorker(h) : r \in CreateUnlocked(g, strat, act)
      \/ r \in CreateUnlocked(h, strat, act)
      \/ h.worker # NoWorker /\ r \in ReloadConfig(h, strat, act)
    BY Zenon DEF Update, UpdateByRestart, UpdateByReload
<1>2. ASSUME NEW g \in StopWorker(h), r \in CreateUnlocked(g, strat, act)
      PROVE  Kept(r, P) /\ Gives(r, h, Items(strat, act))
  <2>1. HostInv(g, P) /\ FuseInv(g) /\ CanStart(g) /\ Quiet(g)
    BY StopWorkerFacts, Zenon DEF FuseInv
  <2>2. Kept(r, P) /\ Gives(r, g, Items(strat, act))
    BY <1>2, <2>1, CreateFacts, Zenon
  <2>3. QED
    BY <2>1, <2>2, Zenon DEF Gives, Still
<1>3. CASE r \in CreateUnlocked(h, strat, act)
    BY <1>3, CreateFacts, Zenon DEF FuseInv
<1>4. CASE h.worker # NoWorker /\ r \in ReloadConfig(h, strat, act)
  <2>1. h.worker \in Workers
    BY <1>4, Zenon DEF HostInv, Host
  <2>2. QED
    BY <1>4, <2>1, ReloadConfigFacts, Zenon
<1>5. QED
    BY <1>1, <1>2, <1>3, <1>4, Zenon

-----------------------------------------------------------------------------
(***************************************************************************)
(* The handlers of the daemon.                                             *)
(***************************************************************************)
SyncerRec ==
    [phase : {"register", "sync", "down"}, reg : 0..MaxIds,
     resp : [id : Nat, ver : Nat, strat : DOMAIN Strategies],
     acts : SUBSET Instances, fails : 0..MaxRetries]

CpmRec ==
    [id : 1..MaxIds, ver : Nat, strat : DOMAIN Strategies, enabled : BOOLEAN, fused : BOOLEAN,
     round : Nat]

(***************************************************************************)
(* What captures was given the tasks of the stored strategy; without a     *)
(* daemon nothing is its own.                                              *)
(***************************************************************************)
Stores(h, s) ==
    \/ Quiet(h)
    \/ s.phase # "down" /\ s.resp # NoResp /\ h.current = Items(s.resp.strat, s.acts)

(***************************************************************************)
(* The inductive invariant: between two handlers the fuse, too, is as it   *)
(* should be, and the fields of the Syncer tell what runs.                 *)
(***************************************************************************)
IInv ==
    /\ HostInv(host, Policies)
    /\ FuseInv(host)
    /\ Stores(host, syncer)
    /\ syncer \in SyncerRec
    /\ cpm \in CpmRec
    /\ active \in SUBSET Instances

HostOK(h) == HostInv(h, Policies) /\ FuseInv(h)

(***************************************************************************)
(* The fields of a daemon that ended or has just started.                  *)
(***************************************************************************)
LEMMA EndsFacts == Down \in SyncerRec /\ NewSyncer \in SyncerRec
<1>1. NewSyncer \in SyncerRec
    BY SyncerAssumption DEF NewSyncer, SyncerRec, NoResp, NoId
<1> HIDE DEF NewSyncer
<1>2. QED
    BY <1>1, Zenon DEF Down, SyncerRec

(***************************************************************************)
(* A new fuse is disabled and has no snapshot.                             *)
(***************************************************************************)
LEMMA NewFuseFacts == NewFuse \in FuseRec /\ ~Active(NewFuse) /\ NewFuse.snap = 0
BY FuseAssumption DEF NewFuse, FuseRec, Fuse, FuseStates, Active, NoSnap

(***************************************************************************)
(* The daemon starts with nothing running.                                 *)
(***************************************************************************)
LEMMA InitIInv == Init => IInv
<1> SUFFICES ASSUME Init PROVE IInv
    OBVIOUS
<1>1. PICK p \in Policies : host = NewHost(p)
    BY Zenon DEF Init
<1>2. NoProcess \in WorkerRec /\ Consistent(NoProcess) /\ ~Captures(NoProcess)
    BY Zenon DEF NoProcess, WorkerRec, Consistent, Captures
<1>3. NewFuse \in FuseRec /\ ~Active(NewFuse) /\ NewFuse.snap = 0
    BY NewFuseFacts, Zenon
<1>4. /\ host \in Host(Policies) /\ host.fuse = NewFuse
      /\ \A w \in Workers : host.ws[w] = NoProcess
  <2> HIDE DEF NoProcess, NewFuse
  <2>1. MaxEvents \in 0..MaxEvents
    BY EventsAssumption
  <2>2. QED
    BY <1>1, <1>2, <1>3, <2>1 DEF NewHost, Host
<1>5. HostInv(host, Policies) /\ FuseInv(host) /\ Stores(host, syncer)
    BY <1>2, <1>3, <1>4, Zenon DEF HostInv, FuseInv, Stores, Quiet
<1>6. syncer \in SyncerRec
    BY EndsFacts, Zenon DEF Init
<1>7. cpm \in CpmRec /\ active \in SUBSET Instances
    BY SyncerAssumption DEF Init, NewRecord, CpmRec, NoSnap, NoId
<1>8. QED
    BY <1>5, <1>6, <1>7, Zenon DEF IInv

(***************************************************************************)
(* A fault and nothing else.                                               *)
(***************************************************************************)
LEMMA SpendOK ==
    ASSUME NEW h, HostOK(h), NEW g, MayFail(h, g)
    PROVE  HostOK(g) /\ (CanStart(h) => CanStart(g)) /\ Still(h, g)
BY SpendFacts DEF HostOK, FuseInv, Quiet, CanStart, Idle, Still

(***************************************************************************)
(* A step that starts nothing, and leaves what is stored of the strategy.  *)
(***************************************************************************)
LEMMA StoresStill ==
    ASSUME NEW h, NEW s, Stores(h, s), NEW g, Still(h, g), NEW t,
           t.resp = s.resp, t.acts = s.acts, t.phase # s.phase => t.phase # "down"
    PROVE  Stores(g, t)
BY Zenon DEF Stores, Still

(***************************************************************************)
(* A report may confirm the trip, which leaves the fuse active.            *)
(***************************************************************************)
LEMMA AcknowledgedFacts ==
    ASSUME NEW h, HostInv(h, Policies)
    PROVE  LET g == Acknowledged(h)
           IN /\ HostInv(g, Policies) /\ g.ws = h.ws /\ (Active(g.fuse) <=> Active(h.fuse))
              /\ g.current = h.current
<1> DEFINE g == Acknowledged(h)
           f == OnReportAck(h.fuse)
<1>1. h \in Host(Policies) /\ h.fuse \in FuseRec
    BY Zenon DEF HostInv, Host
<1>2. f \in FuseRec /\ (Active(f) <=> Active(h.fuse)) /\ f.snap = h.fuse.snap
    BY <1>1, Zenon DEF OnReportAck, FuseRec, Fuse, FuseStates, Active
<1>3. g = [h EXCEPT !.fuse = f]
    BY Zenon DEF Acknowledged
<1> HIDE DEF f, g
<1>4. /\ g \in Host(Policies) /\ g.ws = h.ws /\ g.worker = h.worker /\ g.fuse = f
      /\ g.current = h.current
    BY <1>1, <1>2, <1>3, Zenon DEF Host
<1>5. HostInv(g, Policies)
    BY <1>4, Zenon DEF HostInv
<1>6. QED
    BY <1>2, <1>4, <1>5, Zenon DEF g

(***************************************************************************)
(* What CPM stores of a report is a record of its type.                    *)
(***************************************************************************)
LEMMA StoredFacts ==
    ASSUME NEW h, HostInv(h, Policies), NEW c \in CpmRec
    PROVE  Stored(c, Report(h.fuse)) \in CpmRec
<1>1. h.fuse \in FuseRec
    BY Zenon DEF HostInv, Host
<1>2. Report(h.fuse).snap \in Nat
    BY <1>1, Zenon DEF Report, FuseRec, Fuse, NoSnap
<1>3. ASSUME NEW n \in Nat
      PROVE  [c EXCEPT !.fused = TRUE, !.round = n, !.ver = @ + 1] \in CpmRec
  <2>1. c.ver + 1 \in Nat
    BY DEF CpmRec
  <2> DEFINE v == c.ver + 1
  <2> HIDE DEF v
  <2>2. v \in Nat
    BY <2>1, Zenon DEF v
  <2>3. [c EXCEPT !.fused = TRUE, !.round = n, !.ver = v] \in CpmRec
    BY <2>2, Zenon DEF CpmRec
  <2>4. QED
    BY <2>3, Zenon DEF v
<1>4. QED
  <2> DEFINE rep == Report(h.fuse)
  <2> HIDE DEF rep
  <2>1. Stored(c, rep) = c \/ Stored(c, rep) = [c EXCEPT !.fused = TRUE, !.round = rep.snap, !.ver = @ + 1]
    BY Zenon DEF Stored
  <2>2. rep.snap \in Nat
    BY <1>2, Zenon DEF rep
  <2>3. Stored(c, rep) \in CpmRec
    BY <2>1, <2>2, <1>3, Zenon
  <2>4. QED
    BY <2>3, Zenon DEF rep

(***************************************************************************)
(* A report, answered or lost, touches no worker.                          *)
(***************************************************************************)
LEMMA SyncMetricFacts ==
    ASSUME NEW h, HostInv(h, Policies), NEW reg, NEW c \in CpmRec, NEW t \in SyncMetric(h, reg, c)
    PROVE  /\ HostInv(t.host, Policies) /\ t.host.ws = h.ws /\ t.host.current = h.current
           /\ Active(t.host.fuse) <=> Active(h.fuse)
           /\ t.cpm \in CpmRec
<1> DEFINE s == Stored(c, Report(h.fuse))
<1>1. PICK r \in MetricsCall(h, reg, c, Report(h.fuse)) :
          t = [host |-> IF r.err THEN r.host ELSE Acknowledged(r.host), cpm |-> r.cpm]
    BY Zenon DEF SyncMetric
<1>2. MayFail(h, r.host) /\ r.cpm \in {c, s}
    BY DEF MetricsCall, Happens, MayFail
<1>3. t.host \in {r.host, Acknowledged(r.host)} /\ t.cpm \in {c, s}
    BY <1>1, <1>2, Zenon
<1>4. s \in CpmRec
    BY StoredFacts, Zenon
<1> HIDE DEF s
<1>5. QED
    BY <1>2, <1>3, <1>4, SpendFacts, AcknowledgedFacts

(***************************************************************************)
(* After the trip nothing captures.                                        *)
(***************************************************************************)
LEMMA TripOutcomesFacts ==
    ASSUME NEW h, HostInv(h, Policies), NEW reg, NEW c \in CpmRec,
           NEW t \in TripOutcomes(h, reg, c)
    PROVE  HostOK(t.host) /\ t.cpm \in CpmRec /\ Quiet(t.host)
<1>1. PICK g \in KillWorker(h) : t \in SyncMetric(g, reg, c)
    BY Zenon DEF TripOutcomes
<1>2. HostInv(g, Policies) /\ Quiet(g)
    BY StopWorkerFacts, Zenon
<1>3. HostInv(t.host, Policies) /\ t.host.ws = g.ws /\ t.cpm \in CpmRec
    BY <1>1, <1>2, SyncMetricFacts
<1>4. QED
    BY <1>2, <1>3, Zenon DEF HostOK, FuseInv, Quiet

-----------------------------------------------------------------------------
(***************************************************************************)
(* A new registration: the worker of the old id is stopped.                *)
(***************************************************************************)
LEMMA RegisterStep ==
    ASSUME IInv, Register
    PROVE  IInv'
<1>0. PICK r \in RegisterCall(host) : DoRegister(r.host) \/ RegisterFailed(r.host)
    BY Zenon DEF Register
<1>1. MayFail(host, r.host)
    BY DEF RegisterCall, Happens, MayFail
<1> DEFINE h == r.host
<1>2. HostOK(h) /\ Still(host, h)
    BY <1>1, SpendOK, Zenon DEF IInv, HostOK
<1>3. cpm' = cpm /\ active' = active
    BY Zenon DEF Register
<1>4. \A g \in StopWorker(h) : HostOK(g) /\ Quiet(g)
    BY <1>2, StopWorkerFacts, Zenon DEF HostOK, FuseInv
<1>5. \A g \in StopWorker(h) :
        HostOK([g EXCEPT !.fuse = Reset(@)]) /\ Quiet([g EXCEPT !.fuse = Reset(@)])
  <2> SUFFICES ASSUME NEW g \in StopWorker(h)
               PROVE  HostOK([g EXCEPT !.fuse = Reset(@)]) /\ Quiet([g EXCEPT !.fuse = Reset(@)])
    OBVIOUS
  <2> DEFINE k == [g EXCEPT !.fuse = Reset(@)]
  <2>1. HostInv(g, Policies) /\ Quiet(g)
    BY <1>4, Zenon DEF HostOK
  <2>2. NewFuse \in FuseRec /\ ~Active(NewFuse) /\ NewFuse.snap = 0
    BY NewFuseFacts, Zenon
  <2>3. k = [g EXCEPT !.fuse = NewFuse]
    BY Zenon DEF Reset
  <2> HIDE DEF k, NewFuse
  <2>4. k \in Host(Policies) /\ k.ws = g.ws /\ k.worker = g.worker /\ k.fuse = NewFuse
    BY <2>1, <2>2, <2>3 DEF Host, HostInv
  <2>5. HostOK(k) /\ Quiet(k)
    BY <2>1, <2>2, <2>4, Zenon DEF HostOK, HostInv, FuseInv, Quiet
  <2>6. QED
    BY <2>5, Zenon DEF k
<1> DEFINE entered == [syncer EXCEPT !.phase = "sync", !.reg = cpm.id, !.fails = 0]
<1>6. /\ syncer \in SyncerRec /\ entered \in SyncerRec
      /\ ResetSyncState(syncer) \in SyncerRec /\ ResetSyncState(entered) \in SyncerRec
      /\ entered.resp = syncer.resp /\ entered.acts = syncer.acts /\ entered.phase = "sync"
  <2>1. syncer \in SyncerRec /\ cpm.id \in 0..MaxIds /\ 0 \in 0..MaxRetries
    BY SyncerAssumption DEF IInv, CpmRec
  <2>2. /\ entered \in SyncerRec /\ entered.resp = syncer.resp /\ entered.acts = syncer.acts
        /\ entered.phase = "sync"
    BY <2>1, Zenon DEF SyncerRec
  <2>3. \A s \in SyncerRec : ResetSyncState(s) \in SyncerRec
    <3> SUFFICES ASSUME NEW s \in SyncerRec PROVE ResetSyncState(s) \in SyncerRec
      OBVIOUS
    <3>1. NoResp \in [id : Nat, ver : Nat, strat : DOMAIN Strategies]
      BY SyncerAssumption, Zenon DEF NoResp, NoId
    <3> HIDE DEF NoResp
    <3>2. QED
      BY <3>1, Zenon DEF ResetSyncState, SyncerRec
  <2> HIDE DEF entered
  <2>4. QED
    BY <2>1, <2>2, <2>3, Zenon
<1>6a. Stores(host, syncer)
    BY Zenon DEF IInv
<1>6b. Stores(h, syncer) /\ Stores(h, entered)
  <2> HIDE DEF h, entered
  <2>1. QED
    BY <1>2, <1>6, <1>6a, StoresStill, Zenon
<1> HIDE DEF entered
<1>7. HostOK(host') /\ syncer' \in SyncerRec /\ Stores(host', syncer')
  <2>1. CASE DoRegister(h)
    <3> HIDE DEF h
    <3>1. CASE HasResp /\ syncer.resp.id # cpm.id
      <4>1. PICK g \in StopWorker(h) :
              host' = [g EXCEPT !.fuse = Reset(@)] /\ syncer' = ResetSyncState(entered)
        BY <2>1, <3>1, Zenon DEF DoRegister, entered
      <4>2. QED
        BY <4>1, <1>5, <1>6, Zenon DEF Stores
    <3>2. CASE ~(HasResp /\ syncer.resp.id # cpm.id)
      BY <2>1, <3>2, <1>2, <1>6, <1>6b, Zenon DEF DoRegister, entered
    <3>3. QED
      BY <3>1, <3>2, Zenon
  <2>2. CASE RegisterFailed(h)
    BY <2>2, <1>2, <1>4, <1>6, <1>6b, Zenon DEF RegisterFailed, Stores
  <2>3. QED
    BY <1>0, <2>1, <2>2, Zenon
<1>8. QED
    BY <1>3, <1>7, Zenon DEF IInv, HostOK

-----------------------------------------------------------------------------
(***************************************************************************)
(* What an apply may leave: the fuse may be active with the worker still   *)
(* capturing only when the trip that kills it is asked for.                *)
(***************************************************************************)
AppliedOK(o) ==
    /\ HostInv(o.host, Policies)
    /\ ~o.tripped => FuseInv(o.host) /\ Stores(o.host, o.syncer)
    /\ o.syncer \in SyncerRec

(***************************************************************************)
(* An apply asks for the trip exactly when the manager's call refused.     *)
(***************************************************************************)
LEMMA AppliedFacts ==
    ASSUME NEW r, Kept(r, Policies), NEW s \in SyncerRec,
           r.err # "refused" => Stores(r.host, s)
    PROVE  AppliedOK(Applied(r.host, s, r.err = "refused"))
BY Zenon DEF AppliedOK, Applied, Kept

(***************************************************************************)
(* An apply that did nothing, or failed.                                   *)
(***************************************************************************)
LEMMA AppliedUnchanged ==
    ASSUME NEW h, HostOK(h), NEW s \in SyncerRec, Stores(h, s)
    PROVE  AppliedOK(Applied(h, s, FALSE))
BY Zenon DEF AppliedOK, Applied, HostOK

(***************************************************************************)
(* The fields an apply stores keep their types.                            *)
(***************************************************************************)
LEMMA SyncerFields ==
    ASSUME NEW s \in SyncerRec, NEW c \in CpmRec, NEW found \in SUBSET Instances
    PROVE  /\ WithActs(s, found) \in SyncerRec /\ Advanced(s, c) \in SyncerRec
           /\ WithActs(s, found).resp = s.resp /\ WithActs(s, found).acts = found
           /\ WithActs(s, found).phase = s.phase /\ Advanced(s, c).phase = s.phase
           /\ Advanced(s, c).resp # NoResp /\ Advanced(s, c).resp.strat = c.strat
<1>1. /\ WithActs(s, found) \in SyncerRec
      /\ WithActs(s, found).resp = s.resp /\ WithActs(s, found).acts = found
      /\ WithActs(s, found).phase = s.phase
    BY Zenon DEF WithActs, SyncerRec
<1>2. [id |-> c.id, ver |-> c.ver, strat |-> c.strat] \in [id : Nat, ver : Nat, strat : DOMAIN Strategies]
    BY SyncerAssumption DEF CpmRec
<1>3. /\ Advanced(s, c) \in SyncerRec
      /\ Advanced(s, c).resp = [id |-> c.id, ver |-> c.ver, strat |-> c.strat]
      /\ Advanced(s, c).phase = s.phase
    BY <1>2, Zenon DEF Advanced, SyncerRec
<1>3a. c.id # NoId
    BY SyncerAssumption DEF CpmRec, NoId
<1>3b. Advanced(s, c).resp # NoResp /\ Advanced(s, c).resp.strat = c.strat
    BY <1>3, <1>3a DEF NoResp
<1>4. QED
    BY <1>1, <1>3, <1>3b, Zenon

(***************************************************************************)
(* A call of the manager for the stored strategy: the Syncer keeps the     *)
(* instances it was made for exactly when it succeeded.                    *)
(***************************************************************************)
LEMMA GivesStored ==
    ASSUME NEW h, NEW s \in SyncerRec, Stores(h, s), s.resp # NoResp, s.phase # "down", NEW found \in SUBSET Instances,
           NEW r, Gives(r, h, Items(s.resp.strat, found)), r.err # "refused", NEW t \in SyncerRec,
           t = IF r.err = "none" THEN WithActs(s, found) ELSE s
    PROVE  Stores(r.host, t)
<1>1. CASE r.err = "none"
  <2>1. t.resp = s.resp /\ t.acts = found /\ t.phase = s.phase
    BY <1>1, Zenon DEF WithActs, SyncerRec
  <2>2. QED
    BY <1>1, <2>1, Zenon DEF Gives, Stores
<1>2. CASE r.err = "failed"
    BY <1>2, Zenon DEF Gives, Still, Stores
<1>3. QED
    BY <1>1, <1>2, Zenon DEF Gives

(***************************************************************************)
(* Asking for the instances, answered or failed.                           *)
(***************************************************************************)
LEMMA ActiveInstancesFacts ==
    ASSUME IInv, NEW h, NEW strat, NEW a \in ActiveInstances(h, strat)
    PROVE  MayFail(h, a.host) /\ a.found \in SUBSET Instances
<1>1. \/ a = [host |-> h, found |-> {}] \/ a = [host |-> h, found |-> active]
      \/ h.events > 0 /\ a = [host |-> Spend(h), found |-> {}]
    BY Zenon DEF ActiveInstances, Happens
<1>2. QED
    BY <1>1 DEF IInv, MayFail

(***************************************************************************)
(* The branches of an unchanged strategy: a dead worker is created again.  *)
(***************************************************************************)
LEMMA RestartDeadFacts ==
    ASSUME IInv, syncer.phase = "sync", NEW h, HostOK(h), CanStart(h), Stores(h, syncer), HasResp,
           NEW o \in RestartDead(h)
    PROVE  AppliedOK(o)
<1> DEFINE strat == syncer.resp.strat
<1>0. syncer \in SyncerRec /\ strat \in DOMAIN Strategies
    BY Zenon DEF IInv, SyncerRec
<1> HIDE DEF strat
<1>1. PICK a \in ActiveInstances(h, strat) :
          \/ o = Applied(a.host, syncer, FALSE)
          \/ \E r \in CreateIfDead(a.host, strat, a.found) :
                o = Applied(r.host, IF r.err = "none" THEN WithActs(syncer, a.found) ELSE syncer,
                            r.err = "refused")
    BY Zenon DEF RestartDead, strat
<1>2. HostOK(a.host) /\ CanStart(a.host) /\ a.found \in SUBSET Instances /\ Stores(a.host, syncer)
    BY ActiveInstancesFacts, SpendOK, StoresStill, Zenon
<1>3. CASE o = Applied(a.host, syncer, FALSE)
    BY <1>0, <1>2, <1>3, AppliedUnchanged, Zenon
<1>4. ASSUME NEW r \in CreateIfDead(a.host, strat, a.found),
             o = Applied(r.host, IF r.err = "none" THEN WithActs(syncer, a.found) ELSE syncer,
                         r.err = "refused")
      PROVE  AppliedOK(o)
  <2> DEFINE s == IF r.err = "none" THEN WithActs(syncer, a.found) ELSE syncer
  <2>1. Kept(r, Policies) /\ Gives(r, a.host, Items(strat, a.found))
    BY <1>0, <1>2, CreateIfDeadFacts, Zenon DEF HostOK
  <2>2. s \in SyncerRec
    BY <1>0, <1>2, SyncerFields, Zenon DEF IInv
  <2>3. o = Applied(r.host, s, r.err = "refused")
    BY <1>4, Zenon
  <2>4. s = IF r.err = "none" THEN WithActs(syncer, a.found) ELSE syncer
    OBVIOUS
  <2> HIDE DEF s
  <2>5. r.err # "refused" => Stores(r.host, s)
    BY <1>0, <1>2, <2>1, <2>2, <2>4, GivesStored, Zenon DEF strat, HasResp
  <2>6. QED
    BY <2>1, <2>2, <2>3, <2>5, AppliedFacts, Zenon
<1>5. QED
    BY <1>1, <1>3, <1>4, Zenon

(***************************************************************************)
(* The worker is updated when the instances it captures changed.           *)
(***************************************************************************)
LEMMA UpdateIfInstanceChangedFacts ==
    ASSUME IInv, syncer.phase = "sync", NEW h, HostOK(h), ~Active(h.fuse), CanStart(h),
           Stores(h, syncer), NEW o \in UpdateIfInstanceChanged(h)
    PROVE  AppliedOK(o)
<1> DEFINE strat == syncer.resp.strat
<1>0. syncer \in SyncerRec /\ strat \in DOMAIN Strategies /\ active \in SUBSET Instances
    BY Zenon DEF IInv, SyncerRec
<1> HIDE DEF strat
<1>1. \/ o = Applied(h, syncer, FALSE)
      \/ HasResp /\ \E r \in Update(h, strat, active) :
            o = Applied(r.host, IF r.err = "none" THEN WithActs(syncer, active) ELSE syncer,
                        r.err = "refused")
    BY Zenon DEF UpdateIfInstanceChanged, strat
<1>3. CASE o = Applied(h, syncer, FALSE)
    BY <1>0, <1>3, AppliedUnchanged, Zenon
<1>4. ASSUME HasResp, NEW r \in Update(h, strat, active),
             o = Applied(r.host, IF r.err = "none" THEN WithActs(syncer, active) ELSE syncer,
                         r.err = "refused")
      PROVE  AppliedOK(o)
  <2> DEFINE s == IF r.err = "none" THEN WithActs(syncer, active) ELSE syncer
  <2>1. Kept(r, Policies) /\ Gives(r, h, Items(strat, active))
    BY <1>0, UpdateFacts, Zenon DEF HostOK
  <2>2. s \in SyncerRec
    BY <1>0, SyncerFields, Zenon DEF IInv
  <2>3. o = Applied(r.host, s, r.err = "refused")
    BY <1>4, Zenon
  <2>4. s = IF r.err = "none" THEN WithActs(syncer, active) ELSE syncer
    OBVIOUS
  <2> HIDE DEF s
  <2>5. r.err # "refused" => Stores(r.host, s)
    BY <1>0, <1>4, <2>1, <2>2, <2>4, GivesStored, Zenon DEF strat, HasResp
  <2>6. QED
    BY <2>1, <2>2, <2>3, <2>5, AppliedFacts, Zenon
<1>5. QED
    BY <1>1, <1>3, <1>4, Zenon

(***************************************************************************)
(* Both branches, and the one of an active fuse, which does nothing.       *)
(***************************************************************************)
LEMMA ApplyUnchangedFacts ==
    ASSUME IInv, syncer.phase = "sync", NEW h, HostOK(h), CanStart(h), Stores(h, syncer),
           NEW o \in ApplyUnchanged(h)
    PROVE  AppliedOK(o)
<1>1. CASE Active(h.fuse)
  <2>1. o = Applied(h, syncer, FALSE)
    BY <1>1, Zenon DEF ApplyUnchanged
  <2>2. QED
    BY <2>1, AppliedUnchanged, Zenon DEF IInv
<1>2. CASE ~Active(h.fuse)
  <2>1. (HasResp /\ o \in RestartDead(h)) \/ o \in UpdateIfInstanceChanged(h)
    BY <1>2, Zenon DEF ApplyUnchanged
  <2>2. QED
    BY <1>2, <2>1, RestartDeadFacts, UpdateIfInstanceChangedFacts, Zenon
<1>3. QED
    BY <1>1, <1>2, Zenon

(***************************************************************************)
(* A strategy turns the fuse active only with the worker killed, and is    *)
(* applied only with a fuse that is not.                                   *)
(***************************************************************************)
LEMMA OnStrategyFacts ==
    ASSUME NEW f \in FuseRec, NEW enabled \in BOOLEAN, NEW fused \in BOOLEAN
    PROVE  LET g == OnStrategy(f, enabled, fused)
           IN /\ g \in FuseRec /\ (Active(g) <=> ~OnStrategyApplies(f, fused))
              /\ g.snap \in {0, f.snap}
<1>1. CASE f.state = "tripped"
    BY <1>1, Zenon DEF OnStrategy, OnStrategyApplies, FuseRec, Fuse, FuseStates, Active
<1>2. CASE f.state # "tripped" /\ fused
  <2> DEFINE g == [f EXCEPT !.enabled = enabled, !.state = "fused", !.hits = 0]
  <2>1. OnStrategy(f, enabled, fused) = g /\ ~OnStrategyApplies(f, fused)
    BY <1>2, Zenon DEF OnStrategy, OnStrategyApplies
  <2>2. f \in Fuse /\ 0 \in 0..FailThreshold
    BY FuseAssumption DEF FuseRec
  <2>3. g \in Fuse /\ g.state = "fused" /\ g.snap = f.snap
    BY <2>2, Zenon DEF Fuse, FuseStates
  <2> HIDE DEF g
  <2>4. Active(g) /\ g.state # "armed"
    BY <2>3, Zenon DEF Active
  <2>5. g \in FuseRec
    BY <2>3, <2>4, Zenon DEF FuseRec
  <2>6. QED
    BY <2>1, <2>3, <2>4, <2>5, Zenon
<1>3. CASE f.state # "tripped" /\ ~fused
    BY <1>3, FuseAssumption DEF OnStrategy, OnStrategyApplies, FuseRec, Fuse, FuseStates, Active, NoSnap
<1>4. QED
    BY <1>1, <1>2, <1>3, Zenon

(***************************************************************************)
(* fuseAllowsStrategy: the worker is killed unless none captures already.  *)
(***************************************************************************)
LEMMA FuseAllowsStrategyFacts ==
    ASSUME NEW h, HostOK(h), NEW c \in CpmRec, NEW g \in FuseAllowsStrategy(h, c)
    PROVE  /\ HostOK(g)
           /\ IF OnStrategyApplies(h.fuse, c.fused) THEN ~Active(g.fuse) /\ Still(h, g)
              ELSE Quiet(g)
           /\ CanStart(h) => CanStart(g)
<1> DEFINE f == OnStrategy(h.fuse, c.enabled, c.fused)
           k == [h EXCEPT !.fuse = f]
<1>1. HostInv(h, Policies) /\ FuseInv(h) /\ h \in Host(Policies) /\ h.fuse \in FuseRec
    BY Zenon DEF HostOK, HostInv, Host
<1>2. c.enabled \in BOOLEAN /\ c.fused \in BOOLEAN
    BY Zenon DEF CpmRec
<1>3. /\ f \in FuseRec /\ (Active(f) <=> ~OnStrategyApplies(h.fuse, c.fused))
      /\ f.snap \in {0, h.fuse.snap}
    BY <1>1, <1>2, OnStrategyFacts, Zenon
<1>4. \/ g = k /\ (OnStrategyApplies(h.fuse, c.fused) \/ Active(h.fuse) \/ ~IsAlive(h))
      \/ g \in KillWorker(k) /\ ~OnStrategyApplies(h.fuse, c.fused)
    BY Zenon DEF FuseAllowsStrategy
<1> HIDE DEF f
<1>5. /\ k \in Host(Policies) /\ k.ws = h.ws /\ k.worker = h.worker /\ k.pidFile = h.pidFile
      /\ k.fuse = f /\ k.current = h.current
    BY <1>1, <1>3 DEF Host
<1> HIDE DEF k
<1>6. HostInv(k, Policies) /\ (CanStart(h) => CanStart(k))
    BY <1>1, <1>5, Zenon DEF HostInv, CanStart, Idle
<1>7. CASE g = k /\ (OnStrategyApplies(h.fuse, c.fused) \/ Active(h.fuse) \/ ~IsAlive(h))
  <2>1. OnStrategyApplies(h.fuse, c.fused) \/ Quiet(h)
    BY <1>1, <1>7, DeadQuiet, Zenon DEF FuseInv
  <2>2. /\ FuseInv(k) /\ Still(h, k)
        /\ ~OnStrategyApplies(h.fuse, c.fused) => Quiet(k)
    BY <2>1, <1>3, <1>5, Zenon DEF FuseInv, Quiet, Still
  <2>3. QED
    BY <2>2, <1>3, <1>5, <1>6, <1>7, Zenon DEF HostOK
<1>8. CASE g \in KillWorker(k) /\ ~OnStrategyApplies(h.fuse, c.fused)
    BY <1>6, <1>8, StopWorkerFacts, Zenon DEF HostOK, FuseInv
<1>9. QED
    BY <1>4, <1>7, <1>8, Zenon

(***************************************************************************)
(* A changed strategy is applied, or fails, or is refused.                 *)
(***************************************************************************)
LEMMA ApplyChangedFacts ==
    ASSUME IInv, syncer.phase = "sync", NEW h, HostOK(h), CanStart(h), Stores(h, syncer),
           NEW o \in ApplyChanged(h, cpm)
    PROVE  AppliedOK(o)
<1> DEFINE advanced == Advanced(syncer, cpm)
           applies == OnStrategyApplies(h.fuse, cpm.fused)
<1>0. /\ syncer \in SyncerRec /\ cpm \in CpmRec /\ cpm.strat \in DOMAIN Strategies
    BY Zenon DEF IInv, CpmRec
<1>1. /\ advanced \in SyncerRec /\ advanced.resp # NoResp /\ advanced.resp.strat = cpm.strat
      /\ advanced.phase = "sync"
  <2>1. {} \in SUBSET Instances
    OBVIOUS
  <2>2. QED
    BY <1>0, <2>1, SyncerFields
<1>2. \/ /\ ~applies
         /\ \E g \in FuseAllowsStrategy(h, cpm) : o = Applied(g, advanced, FALSE)
      \/ /\ applies
         /\ \E g \in FuseAllowsStrategy(h, cpm) : \E a \in ActiveInstances(g, cpm.strat) :
              \E r \in Update(a.host, cpm.strat, a.found) :
                 \/ o = Applied(r.host, syncer, FALSE) /\ r.err = "failed"
                 \/ /\ o = Applied(r.host, WithActs(advanced, a.found), r.err = "refused")
                    /\ r.err # "failed"
  <2>1. CASE ~applies
    BY <2>1, Zenon DEF ApplyChanged
  <2>2. CASE applies
    <3> DEFINE after(r, found) ==
                 IF r.err = "failed" THEN Applied(r.host, syncer, FALSE)
                 ELSE Applied(r.host, WithActs(advanced, found), r.err = "refused")
    <3>1. PICK g \in FuseAllowsStrategy(h, cpm) :
            o \in UNION {{after(r, a.found) : r \in Update(a.host, cpm.strat, a.found)}
                         : a \in ActiveInstances(g, cpm.strat)}
      BY <2>2, Zenon DEF ApplyChanged
    <3>a. PICK a \in ActiveInstances(g, cpm.strat) :
            o \in {after(r, a.found) : r \in Update(a.host, cpm.strat, a.found)}
      BY <3>1, Zenon
    <3>2. PICK r \in Update(a.host, cpm.strat, a.found) : o = after(r, a.found)
      BY <3>a, Zenon
    <3>3. \/ o = Applied(r.host, syncer, FALSE) /\ r.err = "failed"
          \/ /\ o = Applied(r.host, WithActs(advanced, a.found), r.err = "refused")
             /\ r.err # "failed"
      BY <3>2, Zenon
    <3>4. QED
      BY <2>2, <3>3, Zenon
  <2>3. QED
    BY <2>1, <2>2, Zenon
<1> HIDE DEF advanced, applies
<1>3. ASSUME ~applies, NEW g \in FuseAllowsStrategy(h, cpm), o = Applied(g, advanced, FALSE)
      PROVE  AppliedOK(o)
  <2>1. HostOK(g) /\ Quiet(g)
    BY <1>0, <1>3, FuseAllowsStrategyFacts, Zenon DEF applies
  <2>2. Stores(g, advanced)
    BY <2>1, Zenon DEF Stores
  <2>3. QED
    BY <1>1, <1>3, <2>1, <2>2, AppliedUnchanged, Zenon
<1>4. ASSUME applies, NEW g \in FuseAllowsStrategy(h, cpm), NEW a \in ActiveInstances(g, cpm.strat),
             NEW r \in Update(a.host, cpm.strat, a.found),
             \/ o = Applied(r.host, syncer, FALSE) /\ r.err = "failed"
             \/ /\ o = Applied(r.host, WithActs(advanced, a.found), r.err = "refused")
                /\ r.err # "failed"
      PROVE  AppliedOK(o)
  <2>1. HostOK(g) /\ ~Active(g.fuse) /\ CanStart(g) /\ Still(h, g)
    BY <1>0, <1>4, FuseAllowsStrategyFacts, Zenon DEF applies
  <2>2. MayFail(g, a.host) /\ a.found \in SUBSET Instances
    BY ActiveInstancesFacts, Zenon
  <2>3. HostInv(a.host, Policies) /\ ~Active(a.host.fuse) /\ CanStart(a.host) /\ Still(g, a.host)
    BY <2>1, <2>2, SpendOK, SpendFacts DEF HostOK
  <2>3a. Stores(a.host, syncer)
    BY <2>1, <2>3, Zenon DEF Still, Stores
  <2>4. Kept(r, Policies) /\ Gives(r, a.host, Items(cpm.strat, a.found))
    BY <1>0, <2>3, UpdateFacts, Zenon
  <2> DEFINE t == WithActs(advanced, a.found)
  <2>5. t \in SyncerRec /\ t.resp = advanced.resp /\ t.acts = a.found /\ t.phase = "sync"
    BY <1>0, <1>1, <2>2, SyncerFields, Zenon
  <2> HIDE DEF t
  <2>6. CASE o = Applied(r.host, syncer, FALSE) /\ r.err = "failed"
    <3>1. Stores(r.host, syncer)
      BY <2>3a, <2>4, <2>6, Zenon DEF Gives, Still, Stores
    <3>2. QED
      BY <2>4, <2>6, <1>0, <3>1, AppliedUnchanged, Zenon DEF Kept, HostOK
  <2>7. CASE o = Applied(r.host, t, r.err = "refused") /\ r.err # "failed"
    <3>1. r.err # "refused" => Stores(r.host, t)
      BY <1>1, <2>4, <2>5, <2>7, Zenon DEF Gives, Stores
    <3>2. QED
      BY <2>4, <2>5, <2>7, <3>1, AppliedFacts, Zenon
  <2>8. QED
    BY <1>4, <2>6, <2>7, Zenon DEF t
<1>5. QED
    BY <1>2, <1>3, <1>4, Zenon

-----------------------------------------------------------------------------
(***************************************************************************)
(* The timers.                                                             *)
(***************************************************************************)
LEMMA PollStep ==
    ASSUME IInv, Poll
    PROVE  IInv'
<1> syncer.phase = "sync"
    BY Zenon DEF Poll
<1>0. PICK r \in StrategyCall(host, syncer.reg, IF HasResp THEN syncer.resp.ver ELSE 0) :
          (~r.err /\ PollAnswered(r)) \/ (r.err /\ PollFailed(r))
    BY Zenon DEF Poll
<1>1. MayFail(host, r.host)
    BY DEF StrategyCall, Happens, MayFail
<1>2. HostOK(r.host) /\ CanStart(r.host) /\ Still(host, r.host)
    BY <1>1, SpendOK, Zenon DEF IInv, HostOK, Poll
<1>2a. Stores(r.host, syncer)
    BY <1>2, Zenon DEF IInv, Stores, Still
<1>3. CASE PollAnswered(r)
  <2>1. PICK o \in ApplyStrategy(r.host, r.changed) :
          /\ syncer' = [o.syncer EXCEPT !.fails = 0]
          /\ IF o.tripped
             THEN \E t \in TripOutcomes(o.host, syncer.reg, cpm) : host' = t.host /\ cpm' = t.cpm
             ELSE host' = o.host /\ UNCHANGED cpm
    BY <1>3, Zenon DEF PollAnswered
  <2>2. AppliedOK(o)
    BY <1>2, <1>2a, ApplyChangedFacts, ApplyUnchangedFacts, Zenon DEF ApplyStrategy
  <2>3. /\ syncer' \in SyncerRec /\ syncer'.resp = o.syncer.resp /\ syncer'.acts = o.syncer.acts
        /\ syncer'.phase = o.syncer.phase
    BY <2>1, <2>2, SyncerAssumption DEF AppliedOK, SyncerRec
  <2>4. HostOK(host') /\ cpm' \in CpmRec /\ Stores(host', syncer')
    <3>1. CASE o.tripped
      BY <2>1, <2>2, <3>1, TripOutcomesFacts DEF AppliedOK, IInv, Stores
    <3>2. CASE ~o.tripped
      BY <2>1, <2>2, <2>3, <3>2, Zenon DEF AppliedOK, IInv, HostOK, Stores
    <3>3. QED
      BY <3>1, <3>2, Zenon
  <2>5. active' = active
    BY <1>3, Zenon DEF PollAnswered
  <2>6. QED
    BY <2>3, <2>4, <2>5, Zenon DEF IInv, HostOK
<1>4. CASE PollFailed(r)
  <2>1. syncer \in SyncerRec
    BY Zenon DEF IInv
  <2> DEFINE n == syncer.fails + 1
             s1 == [syncer EXCEPT !.phase = "register"]
             s2 == [syncer EXCEPT !.fails = n]
  <2>1a. syncer.fails < MaxRetries => n \in 0..MaxRetries
    BY <2>1, SyncerAssumption DEF SyncerRec
  <2>2a. syncer' = s1 \/ (~(syncer.fails >= MaxRetries) /\ syncer' = s2)
    BY <1>4, Zenon DEF PollFailed
  <2>2b. syncer' = s1 \/ (n \in 0..MaxRetries /\ syncer' = s2)
    <3>1. syncer.fails \in Int
      BY <2>1 DEF SyncerRec
    <3>2. QED
      BY <2>1a, <2>2a, <3>1, SyncerAssumption
  <2> HIDE DEF n
  <2>2. /\ s1 \in SyncerRec /\ s1.resp = syncer.resp /\ s1.acts = syncer.acts
        /\ s1.phase = "register"
        /\ n \in 0..MaxRetries => s2 \in SyncerRec
        /\ s2.resp = syncer.resp /\ s2.acts = syncer.acts /\ s2.phase = syncer.phase
    BY <2>1, Zenon DEF SyncerRec
  <2> HIDE DEF s1, s2
  <2>3. /\ syncer' \in SyncerRec /\ syncer'.resp = syncer.resp /\ syncer'.acts = syncer.acts
        /\ syncer'.phase # "down"
    BY <2>2, <2>2b, Zenon
  <2>4. HostOK(host') /\ cpm' = cpm /\ active' = active
    BY <1>2, <1>4, Zenon DEF PollFailed
  <2>4a. Stores(host', syncer')
    BY <1>2a, <1>4, <2>3, Zenon DEF PollFailed, Stores
  <2>5. QED
    BY <2>3, <2>4, <2>4a, Zenon DEF IInv, HostOK
<1>5. QED
    BY <1>0, <1>3, <1>4, Zenon

(***************************************************************************)
(* The metric timer.                                                       *)
(***************************************************************************)
LEMMA MetricTickStep ==
    ASSUME IInv, MetricTick
    PROVE  IInv'
<1>1. PICK t \in SyncMetric(host, syncer.reg, cpm) : host' = t.host /\ cpm' = t.cpm
    BY Zenon DEF MetricTick
<1>2. /\ HostInv(t.host, Policies) /\ t.host.ws = host.ws /\ t.host.current = host.current
      /\ Active(t.host.fuse) <=> Active(host.fuse)
      /\ t.cpm \in CpmRec
    BY SyncMetricFacts, Zenon DEF IInv
<1>3. FuseInv(t.host) /\ Stores(t.host, syncer)
    BY <1>2, Zenon DEF IInv, FuseInv, Stores, Quiet
<1>4. syncer' = syncer /\ active' = active
    BY Zenon DEF MetricTick
<1>5. QED
    BY <1>1, <1>2, <1>3, <1>4, Zenon DEF IInv

(***************************************************************************)
(* The fuse timer: the check that trips the fuse kills the worker.         *)
(***************************************************************************)
LEMMA FuseTickStep ==
    ASSUME IInv, FuseTick
    PROVE  IInv'
<1> DEFINE f(avail) == OnCheck(host.fuse, avail, host.clock + 1)
<1>1. PICK avail \in Readings :
        IF f(avail).state = "tripped"
        THEN \E t \in TripOutcomes([host EXCEPT !.fuse = f(avail), !.clock = @ + 1], syncer.reg, cpm) :
               host' = t.host /\ cpm' = t.cpm
        ELSE host' = [host EXCEPT !.fuse = f(avail)] /\ UNCHANGED cpm
    BY Zenon DEF FuseTick
<1>2. /\ host \in Host(Policies) /\ host.fuse \in FuseRec /\ host.clock \in Nat
      /\ HostInv(host, Policies) /\ cpm \in CpmRec
    BY Zenon DEF IInv, HostInv, Host
<1> DEFINE n == f(avail)
<1>3. /\ n \in FuseRec /\ (n.state # "tripped" => ~Active(n))
      /\ IF n.state = "tripped" THEN n.snap = host.clock + 1 ELSE n.snap = host.fuse.snap
  <2> DEFINE m == host.fuse.hits + 1
             hit == [host.fuse EXCEPT !.hits = m]
             none == [host.fuse EXCEPT !.hits = 0]
  <2>1. m \in 0..FailThreshold
    <3>1. host.fuse.hits \in 0..FailThreshold /\ host.fuse.hits < FailThreshold
      BY <1>2, Zenon DEF FuseRec, Fuse, FuseTick
    <3>2. QED
      BY <3>1, FuseAssumption
  <2>2. \/ n = none \/ (~(m >= FailThreshold) /\ n = hit) \/ n = Trip(hit, host.clock + 1)
    <3>1. hit.hits = m
      BY <1>2, Zenon DEF FuseRec, Fuse
    <3>2. QED
      BY <3>1, Zenon DEF OnCheck, FuseTick
  <2>3. m >= FailThreshold \/ m < FailThreshold
    BY <2>1, FuseAssumption
  <2> HIDE DEF m
  <2>4. /\ host.fuse.state = "armed" /\ host.fuse \in Fuse
        /\ host.fuse.snap # NoSnap => Active(host.fuse)
    BY <1>2, Zenon DEF FuseRec, FuseTick
  <2>5. /\ hit \in Fuse /\ hit.state = "armed" /\ hit.snap = host.fuse.snap /\ hit.hits = m
        /\ none \in Fuse /\ none.state = "armed" /\ none.snap = host.fuse.snap /\ none.hits = 0
    BY <2>1, <2>4, FuseAssumption DEF Fuse
  <2> HIDE DEF hit, n, none
  <2>6. none \in FuseRec /\ (m < FailThreshold => hit \in FuseRec)
    BY <2>4, <2>5, FuseAssumption DEF FuseRec, Active
  <2>7. host.clock + 1 \in Nat
    BY <1>2
  <2>8. /\ Trip(hit, host.clock + 1) \in FuseRec /\ Trip(hit, host.clock + 1).state = "tripped"
        /\ Trip(hit, host.clock + 1).snap = host.clock + 1
    BY <2>5, <2>7, TripFacts, Zenon
  <2>9. QED
    BY <2>2, <2>3, <2>5, <2>6, <2>8, Zenon DEF Active
<1> DEFINE h1 == [host EXCEPT !.fuse = n, !.clock = @ + 1]
           h2 == [host EXCEPT !.fuse = n]
<1>4. IF n.state = "tripped"
      THEN \E t \in TripOutcomes(h1, syncer.reg, cpm) : host' = t.host /\ cpm' = t.cpm
      ELSE host' = h2 /\ UNCHANGED cpm
    BY <1>1, Zenon
<1> HIDE DEF n
<1>a. n.state = "tripped" => h1 \in Host(Policies) /\ h1.ws = host.ws /\ h1.worker = host.worker
  <2> DEFINE m == host.clock + 1
  <2>1. m \in Nat /\ h1 = [host EXCEPT !.fuse = n, !.clock = m] /\ m <= m
    BY <1>2
  <2>2. n.state = "tripped" => n.snap = m
    BY <1>3, Zenon
  <2> HIDE DEF m, h1
  <2>3. QED
    BY <1>2, <1>3, <2>1, <2>2, Zenon DEF Host
<1>5. n.state # "tripped" =>
        /\ h2 \in Host(Policies) /\ h2.ws = host.ws /\ h2.worker = host.worker /\ h2.fuse = n
        /\ h2.current = host.current
    BY <1>2, <1>3, Zenon DEF Host
<1> HIDE DEF h1, h2
<1>6. IF n.state = "tripped" THEN HostInv(h1, Policies) ELSE HostInv(h2, Policies)
    BY <1>2, <1>a, <1>5, Zenon DEF HostInv
<1>7. HostOK(host') /\ cpm' \in CpmRec /\ Stores(host', syncer)
  <2>1. CASE n.state = "tripped"
    BY <1>2, <1>4, <1>6, <2>1, TripOutcomesFacts, Zenon DEF Stores
  <2>2. CASE n.state # "tripped"
    BY <1>2, <1>3, <1>4, <1>5, <1>6, <2>2, Zenon DEF HostOK, FuseInv, IInv, Stores, Quiet
  <2>3. QED
    BY <2>1, <2>2, Zenon
<1>8. syncer' = syncer /\ active' = active
    BY Zenon DEF FuseTick
<1>9. QED
    BY <1>7, <1>8, Zenon DEF IInv, HostOK

(***************************************************************************)
(* The interfaces changed.                                                 *)
(***************************************************************************)
LEMMA NicsChangedStep ==
    ASSUME IInv, NicsChanged
    PROVE  IInv'
<1>1. HostOK(host') /\ cpm' = cpm /\ active' = active /\ Still(host, host')
  <2>1. MayFail(host, host')
    BY Zenon DEF NicsChanged, MayFail
  <2>2. QED
    BY <2>1, SpendOK, Zenon DEF IInv, HostOK, NicsChanged
<1>2. /\ syncer' \in SyncerRec /\ syncer'.resp = syncer.resp /\ syncer'.acts = syncer.acts
      /\ syncer'.phase = "register"
    BY Zenon DEF IInv, SyncerRec, NicsChanged
<1>3. Stores(host', syncer')
    BY <1>1, <1>2, StoresStill, Zenon DEF IInv
<1>4. QED
    BY <1>1, <1>2, <1>3, Zenon DEF IInv, HostOK

-----------------------------------------------------------------------------
(***************************************************************************)
(* The daemon ends: nothing is its own any more.                           *)
(***************************************************************************)
LEMMA OrphanedFacts ==
    ASSUME NEW r \in WorkerRec
    PROVE  Orphaned(r) \in WorkerRec /\ Consistent(Orphaned(r)) /\ ~Captures(Orphaned(r))
<1> DEFINE dir == IF r.dir = "limited" THEN "unowned" ELSE r.dir
           os == IF r.os = "exited" THEN "none" ELSE r.os
           q == [r EXCEPT !.cmd = FALSE, !.go = "none", !.unlinks = FALSE, !.handle = FALSE,
                          !.dir = dir, !.os = os]
<1>1. /\ dir \in {"none", "limited", "unowned"} /\ dir # "limited"
      /\ os \in {"none", "running", "killed", "exited"}
    BY Zenon DEF WorkerRec
<1>2. Orphaned(r) = q
    BY Zenon DEF Orphaned
<1> HIDE DEF dir, os
<1>3. q \in WorkerRec
    BY <1>1, Zenon DEF WorkerRec
<1>4. q.cmd = FALSE /\ q.go = "none" /\ q.dir = dir
    BY Zenon DEF WorkerRec
<1> HIDE DEF q
<1>5. Consistent(q) /\ ~Captures(q)
    BY <1>1, <1>4, Zenon DEF Consistent, Captures
<1>6. QED
    BY <1>2, <1>3, <1>5, Zenon

(***************************************************************************)
(* The new daemon starts with a disabled fuse and nothing of its own.      *)
(***************************************************************************)
LEMMA DaemonGoneFacts ==
    ASSUME NEW h, HostInv(h, Policies)
    PROVE  HostOK(DaemonGone(h)) /\ Quiet(DaemonGone(h))
<1> DEFINE ws == [w \in Workers |-> Orphaned(h.ws[w])]
           g == DaemonGone(h)
<1>1. h \in Host(Policies) /\ \A w \in Workers : h.ws[w] \in WorkerRec
    BY Zenon DEF HostInv, Host
<1>2. /\ ws \in [Workers -> WorkerRec]
      /\ \A w \in Workers : Consistent(ws[w]) /\ ~Captures(ws[w])
    BY <1>1, OrphanedFacts, Zenon
<1>3. NewFuse \in FuseRec /\ NewFuse.snap = 0
    BY NewFuseFacts, Zenon
<1>4. g = [h EXCEPT !.worker = NoWorker, !.current = {}, !.fuse = NewFuse, !.ws = ws]
    BY Zenon DEF DaemonGone
<1> HIDE DEF ws, g, NewFuse
<1>5. g \in Host(Policies) /\ g.ws = ws
  <2>1. h.clock \in Nat
    BY <1>1, Zenon DEF Host
  <2>2. NewFuse.snap <= h.clock
    BY <1>3, <2>1
  <2>3. {} \in SUBSET Tasks /\ NoWorker \in Workers \cup {NoWorker}
    OBVIOUS
  <2>4. QED
    BY <1>1, <1>2, <1>3, <1>4, <2>2, <2>3, Zenon DEF Host
<1>6. HostOK(g) /\ Quiet(g)
    BY <1>2, <1>5, Zenon DEF HostOK, HostInv, FuseInv, Quiet
<1>7. QED
    BY <1>6, Zenon DEF g

(***************************************************************************)
(* A shutdown, which may stop the worker, and a crash, which does not.     *)
(***************************************************************************)
LEMMA ShutdownStep ==
    ASSUME IInv, Shutdown \/ Crash
    PROVE  IInv'
<1>1. HostInv(Spend(host), Policies)
  <2>1. MayFail(host, Spend(host))
    BY Zenon DEF Shutdown, Crash, MayFail
  <2>2. QED
    BY <2>1, SpendFacts, Zenon DEF IInv
<1>2. \/ \E h \in StopWorker(Spend(host)) : host' = DaemonGone(h)
      \/ host' = DaemonGone(Spend(host))
    BY Zenon DEF Shutdown, Crash
<1>3. HostOK(host') /\ Quiet(host')
    BY <1>1, <1>2, StopWorkerFacts, DaemonGoneFacts, Zenon
<1>4. syncer' = Down /\ cpm' = cpm /\ active' = active
    BY Zenon DEF Shutdown, Crash
<1>5. QED
    BY <1>3, <1>4, EndsFacts, Zenon DEF IInv, HostOK, Stores

-----------------------------------------------------------------------------
(***************************************************************************)
(* A process whose state changes, but not to running, stops capturing or   *)
(* keeps not capturing.                                                    *)
(***************************************************************************)
SetOs(h, w, os) == [h EXCEPT !.ws[w].os = os]

(***************************************************************************)
(* It keeps the invariant of its Worker.                                   *)
(***************************************************************************)
LEMMA SetOsFacts ==
    ASSUME NEW h, HostOK(h), NEW w \in Workers, NEW os \in {"none", "killed", "exited"}
    PROVE  /\ HostOK(SetOs(h, w, os)) /\ Still(h, SetOs(h, w, os))
           /\ SetOs(h, w, os).events = h.events
<1> DEFINE g == SetOs(h, w, os)
           r == [h.ws[w] EXCEPT !.os = os]
<1>0. HostInv(h, Policies) /\ FuseInv(h)
    BY Zenon DEF HostOK
<1>1. /\ h \in Host(Policies) /\ h.ws \in [Workers -> WorkerRec] /\ h.ws[w] \in WorkerRec
      /\ Consistent(h.ws[w]) /\ (Captures(h.ws[w]) => w = h.worker)
    BY <1>0, WorkerParts, Zenon
<1>2. g.ws[w] = r
    BY <1>1, Zenon DEF SetOs, Host
<1>3. r \in WorkerRec
    BY <1>1, Zenon DEF WorkerRec
<1>4. g \in Host(Policies) /\ Touches(h, g, w) /\ g.events = h.events
    BY <1>1, <1>3, Zenon DEF SetOs, Host, Touches
<1>5. Consistent(r) /\ ~Captures(r)
    BY <1>1, Zenon DEF Consistent, Captures, WorkerRec
<1> HIDE DEF g, r
<1>6. HostInv(g, Policies)
    BY <1>0, <1>2, <1>4, <1>5, ChangeWorker, Zenon
<1>7. FuseInv(g) /\ Still(h, g)
    BY <1>0, <1>2, <1>4, <1>5, Zenon DEF FuseInv, Quiet, Touches, Still
<1>8. QED
    BY <1>4, <1>6, <1>7, Zenon DEF HostOK, g

(***************************************************************************)
(* The orphan of the pid file is killed.                                   *)
(***************************************************************************)
LEMMA BootStep ==
    ASSUME IInv, Boot
    PROVE  IInv'
<1>1. HostOK(host) /\ host.pidFile \in Workers \cup {NoWorker}
    BY Zenon DEF IInv, HostOK, HostInv, Host
<1>2. \/ host' = host
      \/ host.pidFile # NoWorker /\ host' = SetOs(host, host.pidFile, "killed")
    BY Zenon DEF Boot, KillOrphanWorker, SetOs
<1>3. HostOK(host') /\ Still(host, host')
    BY <1>1, <1>2, SetOsFacts DEF Still
<1>4. Quiet(host)
    BY Zenon DEF Boot, IInv, Stores
<1>5. syncer' = NewSyncer /\ cpm' = cpm /\ active' = active
    BY Zenon DEF Boot
<1>6. QED
    BY <1>3, <1>4, <1>5, EndsFacts, Zenon DEF IInv, HostOK, Stores, Still

(***************************************************************************)
(* A process ends, by itself or killed.                                    *)
(***************************************************************************)
LEMMA ProcessStep ==
    ASSUME IInv, NEW w \in Workers, ProcessExits(w) \/ KilledDies(w)
    PROVE  IInv'
<1> DEFINE g == SetOs(host, w, Gone(w))
<1>1. Gone(w) \in {"none", "exited"}
    BY Zenon DEF Gone
<1>2. HostOK(g) /\ Still(host, g) /\ g.events = host.events
    BY <1>1, SetOsFacts, Zenon DEF IInv, HostOK
<1>3. host' = g \/ (host.events > 0 /\ host' = Spend(g))
    BY Zenon DEF ProcessExits, KilledDies, Happens, SetOs
<1> HIDE DEF g
<1>4. HostOK(host') /\ Still(host, host')
    BY <1>2, <1>3, SpendOK, Zenon DEF Still, MayFail
<1>5. UNCHANGED <<syncer, cpm, active>>
    BY Zenon DEF ProcessExits, KilledDies
<1>6. Stores(host', syncer')
    BY <1>4, <1>5, StoresStill, Zenon DEF IInv
<1>7. QED
    BY <1>4, <1>5, <1>6, Zenon DEF IInv, HostOK

(***************************************************************************)
(* A reload of cpworker changes only what it captures.                     *)
(***************************************************************************)
LEMMA WorkerReloadsStep ==
    ASSUME IInv, NEW w \in Workers, WorkerReloads(w)
    PROVE  IInv'
<1> DEFINE g == [host EXCEPT !.ws[w].reload = FALSE, !.ws[w].runs = host.config]
           k == [host EXCEPT !.ws[w].reload = FALSE]
           rg == [host.ws[w] EXCEPT !.reload = FALSE, !.runs = host.config]
           rk == [host.ws[w] EXCEPT !.reload = FALSE]
<1>0. HostInv(host, Policies) /\ FuseInv(host)
    BY Zenon DEF IInv
<1>1. /\ host \in Host(Policies) /\ host.ws \in [Workers -> WorkerRec] /\ host.ws[w] \in WorkerRec
      /\ Consistent(host.ws[w]) /\ (Captures(host.ws[w]) => w = host.worker)
    BY <1>0, WorkerParts, Zenon
<1>2. g.ws[w] = rg /\ k.ws[w] = rk
    BY <1>1, Zenon DEF Host
<1>3. rg \in WorkerRec /\ rk \in WorkerRec
    BY <1>1, Zenon DEF WorkerRec, Host
<1>4. g \in Host(Policies) /\ Touches(host, g, w)
    BY <1>1, <1>3, Zenon DEF Host, Touches
<1>5. k \in Host(Policies) /\ Touches(host, k, w) /\ k.events = host.events
    BY <1>1, <1>3, Zenon DEF Host, Touches
<1>6. /\ Consistent(rg) /\ (Captures(rg) <=> Captures(host.ws[w]))
      /\ Consistent(rk) /\ (Captures(rk) <=> Captures(host.ws[w]))
    BY <1>1 DEF Consistent, Captures, WorkerRec
<1>7. host' = g \/ (host.events > 0 /\ host' = Spend(k))
    BY Zenon DEF WorkerReloads, Happens
<1> HIDE DEF g, k, rg, rk
<1>8. HostInv(g, Policies) /\ HostInv(k, Policies)
    BY <1>0, <1>1, <1>2, <1>4, <1>5, <1>6, ChangeWorker, Zenon
<1>9. FuseInv(g) /\ FuseInv(k) /\ Still(host, g) /\ Still(host, k)
    BY <1>0, <1>2, <1>4, <1>5, <1>6, Zenon DEF FuseInv, Quiet, Touches, Still
<1>10. HostOK(host') /\ Still(host, host')
  <2>1. host' = g \/ MayFail(k, host')
    BY <1>5, <1>7, Zenon DEF MayFail
  <2>2. QED
    BY <1>8, <1>9, <2>1, SpendOK, Zenon DEF HostOK, Still
<1>11. UNCHANGED <<syncer, cpm, active>>
    BY Zenon DEF WorkerReloads
<1>12. Stores(host', syncer')
    BY <1>10, <1>11, StoresStill, Zenon DEF IInv
<1>13. QED
    BY <1>10, <1>11, <1>12, Zenon DEF IInv, HostOK

(***************************************************************************)
(* A step of the goroutine that waits for a process.                       *)
(***************************************************************************)
LEMMA GoroutineStep ==
    ASSUME IInv, NEW w \in Workers, Goroutine(w)
    PROVE  IInv'
<1>0. HostInv(host, Policies) /\ FuseInv(host)
    BY DEF IInv
<1>1. /\ host.ws[w] \in WorkerRec /\ Consistent(host.ws[w])
    BY <1>0, WorkerParts, Zenon
<1>2. HostInv(host', Policies) /\ Touches(host, host', w) /\ (Captures(host'.ws[w]) => Captures(host.ws[w]))
  <2>1. CASE host.ws[w].go = "pidfile" /\ host' \in CreatePidFile(host, w)
    <3>1. HostInv(host', Policies) /\ Touches(host, host', w)
      BY <1>0, <2>1, CreatePidFileFacts, Zenon
    <3>2. host'.ws[w].os = host.ws[w].os
      <4> DEFINE made == [host EXCEPT !.pidFile = w, !.ws[w].go = "wait", !.ws[w].unlinks = TRUE]
                 none == [host EXCEPT !.ws[w].go = "wait"]
      <4>1. host \in Host(Policies)
        BY <1>0, Zenon DEF HostInv
      <4>2. host' \in {made, Spend(none)}
        BY <2>1, Zenon DEF CreatePidFile, Happens
      <4>3. made.ws[w].os = host.ws[w].os
        BY <4>1, <1>1, Zenon DEF Host, WorkerRec
      <4>4. Spend(none).ws[w].os = host.ws[w].os
        BY <4>1, <1>1, Zenon DEF Host, WorkerRec, Spend
      <4> HIDE DEF made, none
      <4>5. QED
        BY <4>2, <4>3, <4>4, Zenon
    <3>3. QED
      BY <2>1, <3>1, <3>2, Zenon DEF Captures
  <2>2. CASE host.ws[w].go = "wait" /\ host' = Reap(host, w)
    <3>1. host.ws[w].cmd
      BY <1>1, <2>2, Zenon DEF Consistent
    <3>2. HostInv(host', Policies) /\ Touches(host, host', w) /\ host'.ws[w].go \in {"cgroup", "unlink"}
      BY <1>0, <2>2, <3>1, ReapFacts, Zenon
    <3>3. Consistent(host'.ws[w])
      BY <3>2, Zenon DEF HostInv
    <3>4. QED
      BY <3>2, <3>3, Zenon DEF Captures, Consistent
  <2>3. CASE host.ws[w].go = "cgroup" /\ host' = RemoveCgroup(host, w)
    <3>1. HostInv(host', Policies) /\ Touches(host, host', w) /\ host'.ws[w].go = "unlink"
      BY <1>0, <2>3, RemoveCgroupFacts, Zenon
    <3>2. Consistent(host'.ws[w])
      BY <3>1, Zenon DEF HostInv
    <3>3. QED
      BY <3>1, <3>2, Zenon DEF Captures, Consistent
  <2>4. CASE host.ws[w].go = "unlink" /\ host' = RemovePidFile(host, w)
    BY <1>0, <2>4, RemovePidFileFacts, Zenon
  <2>5. QED
    BY <2>1, <2>2, <2>3, <2>4, Zenon DEF Goroutine
<1>3. FuseInv(host') /\ Still(host, host')
    BY <1>0, <1>2, Zenon DEF FuseInv, Quiet, Touches, Still
<1>4. UNCHANGED <<syncer, cpm, active>>
    BY Zenon DEF Goroutine
<1>5. Stores(host', syncer')
    BY <1>3, <1>4, StoresStill, Zenon DEF IInv
<1>6. QED
    BY <1>2, <1>3, <1>4, <1>5, Zenon DEF IInv

-----------------------------------------------------------------------------
(***************************************************************************)
(* Changes made from outside.                                              *)
(***************************************************************************)
LEMMA AdministrateStep ==
    ASSUME IInv, Administrate \/ InstanceChanges
    PROVE  IInv'
<1>1. MayFail(host, host')
    BY Zenon DEF Administrate, InstanceChanges, Happens, MayFail
<1>2. HostOK(host') /\ syncer' = syncer /\ Still(host, host')
    BY <1>1, SpendOK, Zenon DEF IInv, HostOK, Administrate, InstanceChanges
<1>2a. Stores(host', syncer')
    BY <1>2, StoresStill, Zenon DEF IInv
<1>3. cpm \in CpmRec /\ active \in SUBSET Instances
    BY Zenon DEF IInv
<1>4. CASE Administrate
  <2>1. cpm' \in CpmRec
    <3> DEFINE v == cpm.ver + 1
               i == cpm.id + 1
    <3>1. v \in Nat /\ (cpm.id < MaxIds => i \in 1..MaxIds)
      BY <1>3, SyncerAssumption DEF CpmRec
    <3>2. \/ \E s \in DOMAIN Strategies : cpm' = [cpm EXCEPT !.strat = s, !.ver = v]
          \/ cpm' = [cpm EXCEPT !.enabled = ~cpm.enabled, !.ver = v]
          \/ cpm' = [cpm EXCEPT !.fused = FALSE, !.ver = v]
          \/ cpm.id < MaxIds /\ cpm' = NewRecord(i)
      BY <1>4, Zenon DEF Administrate
    <3> HIDE DEF v, i
    <3>3. CASE \E s \in DOMAIN Strategies : cpm' = [cpm EXCEPT !.strat = s, !.ver = v]
      <4>1. PICK s \in DOMAIN Strategies : cpm' = [cpm EXCEPT !.strat = s, !.ver = v]
        BY <3>3, Zenon
      <4>2. QED
        BY <1>3, <3>1, <4>1, Zenon DEF CpmRec
    <3>4. CASE cpm' = [cpm EXCEPT !.enabled = ~cpm.enabled, !.ver = v]
      <4> DEFINE e == ~cpm.enabled
      <4>1. e \in BOOLEAN
        OBVIOUS
      <4> HIDE DEF e
      <4>2. QED
        BY <1>3, <3>1, <3>4, <4>1, Zenon DEF CpmRec, e
    <3>5. CASE cpm' = [cpm EXCEPT !.fused = FALSE, !.ver = v]
      BY <1>3, <3>1, <3>5, Zenon DEF CpmRec
    <3>6. CASE cpm.id < MaxIds /\ cpm' = NewRecord(i)
      BY <3>1, <3>6, SyncerAssumption, Zenon DEF CpmRec, NewRecord, NoSnap
    <3>7. QED
      BY <3>2, <3>3, <3>4, <3>5, <3>6, Zenon
  <2>2. active' = active
    BY <1>4, Zenon DEF Administrate
  <2>3. QED
    BY <1>2, <1>2a, <1>3, <2>1, <2>2, Zenon DEF IInv, HostOK
<1>5. CASE InstanceChanges
    BY <1>2, <1>2a, <1>3, <1>5, Zenon DEF IInv, HostOK, InstanceChanges
<1>6. QED
    BY <1>4, <1>5, Zenon

-----------------------------------------------------------------------------
(***************************************************************************)
(* Every step keeps the invariant.                                         *)
(***************************************************************************)
LEMMA NextIInv == IInv /\ [Next]_vars => IInv'
<1> SUFFICES ASSUME IInv, [Next]_vars PROVE IInv'
    OBVIOUS
<1>1. CASE UNCHANGED vars
    BY <1>1, Zenon DEF IInv, vars
<1>2. CASE Next
    BY <1>2, RegisterStep, PollStep, MetricTickStep, FuseTickStep, NicsChangedStep,
       ShutdownStep, BootStep, GoroutineStep, ProcessStep, WorkerReloadsStep, AdministrateStep, Zenon
       DEF Next
<1>3. QED
    BY <1>1, <1>2, Zenon

(***************************************************************************)
(* The invariant of the daemon: its Worker objects are consistent, only    *)
(* the worker it holds captures, with the tasks of the stored strategy,    *)
(* and none does with an active fuse.                                      *)
(***************************************************************************)
THEOREM DaemonInvariant == Spec => []IInv
BY InitIInv, NextIInv, PTL DEF Spec

(***************************************************************************)
(* The state of the daemon is of its type: among the rest, an armed fuse   *)
(* has fewer hits than trip it and only an active one a snapshot, of a     *)
(* round that was opened (fuse.go OnStrategy, OnCheck), and no more polls  *)
(* fail in a row than the Syncer retries (syncer.go syncLoop).             *)
(***************************************************************************)
THEOREM DaemonTypeOK == Spec => []TypeOK
<1>1. IInv => TypeOK
  <2> SUFFICES ASSUME IInv PROVE TypeOK
    OBVIOUS
  <2>1. host \in Host(Policies) /\ host.fuse \in FuseRec
    BY Zenon DEF IInv, HostInv, Host
  <2>2. syncer \in SyncerRec /\ active \subseteq Instances
    BY Zenon DEF IInv
  <2>3. QED
    BY <2>1, <2>2, Zenon DEF TypeOK, Host, FuseRec, SyncerRec
<1>2. QED
    BY <1>1, DaemonInvariant, PTL

(***************************************************************************)
(* Whatever fails in creating, updating or stopping a worker, a process    *)
(* that captures is the one the manager holds (worker_mgr.go).             *)
(***************************************************************************)
THEOREM NoWorkerLost == Spec => []CapturingIsManaged
<1>1. IInv => CapturingIsManaged
    BY Zenon DEF IInv, HostInv, CapturingIsManaged, Capturing, Captures
<1>2. QED
    BY <1>1, DaemonInvariant, PTL

(***************************************************************************)
(* Nothing captures while the fuse is tripped or fused, whichever of the   *)
(* start gate, the runtime check, CPM or a restart made it so (syncer.go   *)
(* trip, fuseAllowsStrategy).                                              *)
(***************************************************************************)
THEOREM FuseStopsCapture == Spec => []NoCaptureWhileFused
<1>1. IInv => NoCaptureWhileFused
    BY Zenon DEF IInv, FuseInv, Quiet, NoCaptureWhileFused, Capturing, Captures
<1>2. QED
    BY <1>1, DaemonInvariant, PTL

(***************************************************************************)
(* A worker captures only with the task set of the strategy and instances  *)
(* the daemon has stored, and so acknowledges to CPM, whatever apply       *)
(* failed, was refused or was overtaken by a trip (syncer.go applyStrategy *)
(* stores a strategy only after worker_mgr.go Update succeeded).           *)
(***************************************************************************)
THEOREM AcknowledgedRuns == Spec => []AcknowledgedIsApplied
<1>1. IInv => AcknowledgedIsApplied
    BY Zenon DEF IInv, Stores, Quiet, AcknowledgedIsApplied, Capturing, Captures, HasResp
<1>2. QED
    BY <1>1, DaemonInvariant, PTL

(***************************************************************************)
(* A process that ended, with the goroutine that waited for it, has left   *)
(* no cgroup it had a handle of (worker.go Start, UpdateResLimit).         *)
(***************************************************************************)
THEOREM NoCgroupLeft == Spec => []CgroupRemoved
<1>1. IInv => CgroupRemoved
    BY Zenon DEF IInv, HostInv, Consistent, CgroupRemoved
<1>2. QED
    BY <1>1, DaemonInvariant, PTL
=============================================================================
