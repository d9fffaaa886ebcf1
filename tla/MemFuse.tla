------------------------------- MODULE MemFuse -------------------------------
(***************************************************************************)
(* The memory fuse of cpdaemon (cpdaemon/pkg/memfuse/fuse.go): a state     *)
(* machine without I/O that the Syncer drives.  A fuse is a record; each   *)
(* method is an operator from a fuse to the fuse it becomes, and a method  *)
(* that answers has a second operator for its answer.                      *)
(*                                                                         *)
(* A snapshot is abstracted to the number of the round it belongs to (the  *)
(* daemon reports it as its timestamp); NoSnap is the nil pointer.         *)
(***************************************************************************)
EXTENDS Naturals

CONSTANTS
    FailThreshold,  \* consecutive low readings that trip the fuse
    MinAvailable    \* the reserve left to the host, in the unit of readings

ASSUME FuseAssumption ==
    /\ FailThreshold \in Nat \ {0}
    /\ MinAvailable \in Nat

FuseStates == {"disabled", "armed", "tripped", "fused"}

NoSnap == 0

Fuse == [state : FuseStates, enabled : BOOLEAN, hits : 0..FailThreshold, snap : Nat]

NewFuse == [state |-> "disabled", enabled |-> FALSE, hits |-> 0, snap |-> NoSnap]

Active(f) == f.state \in {"tripped", "fused"}

(***************************************************************************)
(* The resident ring is estimated at twice the configured buffer.          *)
(***************************************************************************)
NicBuffer(cfg) == 2 * cfg

(***************************************************************************)
(* OnStrategy: while tripped only the switch is stored.  memFused wins     *)
(* over the switch; otherwise the round, if any, is over.                  *)
(***************************************************************************)
OnStrategyApplies(f, fused) == f.state # "tripped" /\ ~fused

OnStrategyKeepsSnap(f, enabled, fused) ==
    CASE f.state = "tripped" -> [f EXCEPT !.enabled = enabled]
      [] f.state # "tripped" /\ fused ->
            [f EXCEPT !.enabled = enabled, !.state = "fused", !.hits = 0]
      [] OTHER ->
            [f EXCEPT !.state = IF enabled THEN "armed" ELSE "disabled",
                      !.enabled = enabled, !.hits = 0]

OnStrategy(f, enabled, fused) ==
    CASE f.state = "tripped" -> [f EXCEPT !.enabled = enabled]
      [] f.state # "tripped" /\ fused ->
            [f EXCEPT !.enabled = enabled, !.state = "fused", !.hits = 0]
      [] OTHER ->
            [state |-> IF enabled THEN "armed" ELSE "disabled",
             enabled |-> enabled, hits |-> 0, snap |-> NoSnap]

Trip(f, round) == [f EXCEPT !.state = "tripped", !.snap = round]

(***************************************************************************)
(* BeforeStart: the startup check, for a ring of size new.                 *)
(***************************************************************************)
BeforeStartPasses(f, new, avail) ==
    \/ f.state = "disabled"
    \/ f.state = "armed" /\ avail >= NicBuffer(new) + MinAvailable

BeforeStart(f, new, avail, round) ==
    IF f.state = "armed" /\ ~BeforeStartPasses(f, new, avail) THEN Trip(f, round) ELSE f

(***************************************************************************)
(* OnCheck: one runtime check.                                             *)
(***************************************************************************)
OnCheck(f, avail, round) ==
    LET hit == [f EXCEPT !.hits = @ + 1]
    IN CASE f.state # "armed" -> f
         [] f.state = "armed" /\ avail >= MinAvailable -> [f EXCEPT !.hits = 0]
         [] OTHER -> IF hit.hits >= FailThreshold THEN Trip(hit, round) ELSE hit

OnReportAck(f) == IF f.state = "tripped" THEN [f EXCEPT !.state = "fused"] ELSE f

Reset(f) == NewFuse

(***************************************************************************)
(* Report: a round of this process is reported as fused with its snapshot; *)
(* a fuse restored from CPM has none and is reported as a normal state.    *)
(***************************************************************************)
Report(f) ==
    IF f.snap # NoSnap THEN [state |-> "fused", snap |-> f.snap]
    ELSE [state |-> IF f.state = "armed" \/ (f.state = "fused" /\ f.enabled)
                    THEN "armed" ELSE "disabled",
          snap |-> NoSnap]
=============================================================================
