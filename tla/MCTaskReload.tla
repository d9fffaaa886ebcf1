---------------------------- MODULE MCTaskReload ----------------------------
(* Two fingerprints and configurations that keep, add, drop and replace    *)
(* tasks, resize the message buffer, or cannot be reloaded.                *)
EXTENDS TaskReload

CONSTANTS a, b

MCFp == {a, b}

PipelineConfigs ==
    { [tasks |-> {a, b}, buffer |-> 2],
      [tasks |-> {b}, buffer |-> 1],
      [tasks |-> {a, NoFp}, buffer |-> 2] }

(* fewer, for the liveness properties *)
ReplaceConfigs ==
    { [tasks |-> {a}, buffer |-> 2],
      [tasks |-> {b}, buffer |-> 1] }

RtcConfigs ==
    { [tasks |-> {a}, buffer |-> 0],
      [tasks |-> {b}, buffer |-> 0],
      [tasks |-> {a, b}, buffer |-> 0],
      [tasks |-> {a, NoFp}, buffer |-> 0],
      [tasks |-> {b}, buffer |-> 1] }
=============================================================================
