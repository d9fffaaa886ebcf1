------------------------------ MODULE MCSyncer ------------------------------
(***************************************************************************)
(* Instances of the Syncer for TLC: a strategy with one task, one that     *)
(* replaces it and has a cpu limit, one with a KVM instance, one without   *)
(* any task and one that cannot be sized.                                  *)
(***************************************************************************)
EXTENDS Syncer

CONSTANTS t1, t2, i1

MCTasks == {t1, t2, i1}

MCStrategies ==
    [one |-> [tasks |-> {t1}, instances |-> {}, limited |-> FALSE, sizable |-> TRUE],
     two |-> [tasks |-> {t1, t2}, instances |-> {}, limited |-> TRUE, sizable |-> TRUE],
     kvm |-> [tasks |-> {}, instances |-> {i1}, limited |-> FALSE, sizable |-> TRUE],
     tiny |-> [tasks |-> {t2}, instances |-> {}, limited |-> FALSE, sizable |-> FALSE]]
=============================================================================
