------------------------------ MODULE MCDeploy ------------------------------
(***************************************************************************)
(* Strategies for TLC: for each channel a plain one and its variations in  *)
(* one or two fields, at and beyond the limits; request patterns; and the  *)
(* lists they are loaded in.                                               *)
(***************************************************************************)
EXTENDS Deploy, ReqPattern, SequencesExt

NoArgs ==
    [parses |-> TRUE, snaplen |-> None, timeout |-> None, bindDevice |-> None,
     pmtudisc |-> None, zmqHwm |-> None, noFilter |-> None]

Base(channel) ==
    [containerIds |-> <<>>, interfaceNames |-> <<"eth0">>, instanceNames |-> <<>>,
     bpf |-> None, sliceLen |-> None, forwardRateLimit |-> None, capTime |-> None,
     serviceTag |-> None, apiVersion |-> None, hasPacketSplit |-> FALSE,
     packetSplitBytes |-> None, recalculateChecksum |-> FALSE,
     hasObservationTag |-> FALSE, observationPointIds |-> <<>>, observationDomainIds |-> <<>>,
     extensionFlag |-> None, reqPatternType |-> None, reqPattern |-> None,
     zmqHeartbeatMs |-> None, dumpDir |-> "dumps", dumpInterval |-> None,
     channel |-> channel, address |-> "a", port |-> 5555, args |-> NoArgs]

With(s, field, values) == {[s EXCEPT ![field] = v] : v \in values}

WithArg(s, arg, values) == {[s EXCEPT !.args[arg] = v] : v \in values}

Common(s) ==
    {s} \cup With(s, "address", {"", "name"}) \cup With(s, "port", {None, 0, 1, 65535, 65536})
        \cup With(s, "serviceTag", {-1, 0, 2 ^ 24 + 5}) \cup WithArg(s, "timeout", {-1, 0})
        \cup WithArg(s, "parses", {FALSE}) \cup WithArg(s, "snaplen", {-1, 0, 96, 262145})
        \cup WithArg(s, "noFilter", {TRUE}) \cup With(s, "forwardRateLimit", {-1, 0, 10})
        \cup With(s, "sliceLen", {-1, 128}) \cup With(s, "reqPatternType", {"AUTO", "CUSTOM"})
        \cup With(s, "bpf", {"tcp"})

Socket(s) ==
    WithArg(s, "pmtudisc", {"do", "never"}) \cup WithArg(s, "bindDevice", {"eth1"})
        \cup {[s EXCEPT !.args.bindDevice = "eth1", !.args.noFilter = TRUE]}

VxlanV2 == [Base("VXLAN") EXCEPT !.apiVersion = "v2", !.hasObservationTag = TRUE,
                                 !.observationPointIds = <<3, 33>>, !.observationDomainIds = <<2 ^ 24>>,
                                 !.extensionFlag = -1]

Splitting == [Base("VXLAN") EXCEPT !.hasPacketSplit = TRUE, !.recalculateChecksum = TRUE]

Placed ==
    UNION {{[Base(c) EXCEPT !.containerIds = <<[id |-> "c1", nics |-> <<"eth0", "eth1">>],
                                               [id |-> "c2", nics |-> <<"eth0">>]>>],
            [Base(c) EXCEPT !.interfaceNames = <<"eth0", "eth0", "eth1">>],
            [Base(c) EXCEPT !.interfaceNames = <<>>, !.instanceNames = <<"vm1", "vm2", "vm3">>]}
           : c \in {"VXLAN", "FILE"}}

Singles ==
    Common(Base("VXLAN")) \cup Socket(Base("VXLAN")) \cup With(Base("VXLAN"), "capTime", {0, 1})
        \cup With(Splitting, "packetSplitBytes", {None, -1, 0, 65535, 65536})
        \cup {VxlanV2, [VxlanV2 EXCEPT !.interfaceNames = <<"eth0", "eth1", "eth2">>],
              [VxlanV2 EXCEPT !.serviceTag = -1]}
        \cup Common(Base("GRE")) \cup Socket(Base("GRE"))
        \cup Common(Base("ZMQ")) \cup WithArg(Base("ZMQ"), "zmqHwm", {-1, 0})
        \cup With(Base("ZMQ"), "zmqHeartbeatMs", {-1, 0, 60000, 60001})
        \cup Common(Base("FILE")) \cup With(Base("FILE"), "dumpInterval", {-1, 0})
        \cup With(Base("FILE"), "dumpDir", {None, "locked"})
        \cup Placed \cup {Base("UNKNOWN")}

(***************************************************************************)
(* Pattern texts: up to three pieces in any order, and longer ones with     *)
(* parentheses.                                                            *)
(***************************************************************************)
Pieces == {<<"host", "a">>, <<"port", "80">>, <<"and">>, <<"or">>, <<"(">>, <<")">>}

Conditions == {<<"host", "a">>, <<"host", "b">>, <<"port", "80">>, <<"host">>, <<"port", "a">>}

Operators == {<<"and">>, <<"or">>}

Texts ==
    {FlattenSeq(t) : t \in UNION {[1 .. n -> Pieces] : n \in 1 .. 3}}
        \cup {x \o p \o y \o q \o <<"host", "b">> :
                  x, y \in Conditions, p, q \in Operators}
        \cup {<<"(">> \o x \o p \o y \o <<")">> \o q \o <<"host", "b">> :
                  x, y \in Conditions, p, q \in Operators}
        \cup {<<"host", "b">> \o q \o <<"(">> \o x \o p \o y \o <<")">> :
                  x, y \in Conditions, p, q \in Operators}

Patterned ==
    {[Base("GRE") EXCEPT !.reqPatternType = "CUSTOM", !.reqPattern = t] : t \in Texts}

Other == [Base("ZMQ") EXCEPT !.address = "b", !.interfaceNames = <<"eth1">>]

Contained ==
    [Base("GRE") EXCEPT !.containerIds = <<[id |-> "c1", nics |-> <<"eth0">>]>>]

FirstLists == {<<s>> : s \in Patterned} \cup {<<s, Other>> : s \in Singles}

SecondLists == {<<Base("VXLAN"), Other>>, <<Contained>>, <<Base("UNKNOWN")>>}

MCRounds == <<FirstLists, SecondLists>>

(***************************************************************************)
(* A second strategy for the interface of the first one.                   *)
(***************************************************************************)
Neighbour == [Base("ZMQ") EXCEPT !.address = "b"]

TwoRounds == <<{<<Base("VXLAN")>>}, {<<Base("VXLAN"), Neighbour>>}>>

(***************************************************************************)
(* The memory holds the capture buffers of one task and more than the      *)
(* smallest pipeline, the ones of two with less than it, not those of more. *)
(***************************************************************************)
PipelineCfg ==
    [logLevel |-> "INFO", control |-> [type |-> "unix", unix |-> [path |-> "sock"]],
     executionModel |-> "pipeline", cpuAffinity |-> "0", minBufferMb |-> 4, memLimitMb |-> 18]

RtcCfg == [PipelineCfg EXCEPT !.executionModel = "rtc", !.cpuAffinity = ""]

MCInstanceNics == [name \in {"vm1", "vm2"} |-> IF name = "vm1" THEN <<"tap1", "tap2">> ELSE <<>>]

MCCompiles(pattern) == CustomMatcher(pattern) # NoNode

-----------------------------------------------------------------------------
(***************************************************************************)
(* A task that serves a strategy: it captures one of its interfaces, sends *)
(* to its address with its tag, and its pattern means what the text says.  *)
(***************************************************************************)
SendsAsAsked(output, s) ==
    CASE s.channel = "VXLAN" ->
             /\ output.config.host = s.address
             /\ output.config.port = (IF s.port = None THEN 4789 ELSE s.port)
             /\ UsesVni1(s) /\ s.serviceTag # None => output.config.vni.tag = s.serviceTag % (2 ^ 24)
      [] s.channel = "GRE" ->
             /\ output.config.host = s.address
             /\ s.serviceTag # None => output.config.serviceTag = s.serviceTag
      [] s.channel = "ZMQ" -> output.config.host = s.address /\ output.config.port = s.port
      [] s.channel = "FILE" -> output.config.root[1] = s.dumpDir

PatternAsAsked(task, s) ==
    s.reqPatternType = "CUSTOM" =>
        /\ IsPattern(s.reqPattern)
        /\ \A addr \in HostValues, port \in PortValues :
              Evaluate(CustomMatcher(task.reqPattern.pattern), addr, port)
                  <=> Means(s.reqPattern, addr, port)

Serves(task, s) ==
    /\ \E i \in DOMAIN Items(s) : Items(s)[i].nic = task.capturer.interface
    /\ SendsAsAsked(task.outputs[1], s)
    /\ PatternAsAsked(task, s)

Channel(type) ==
    CASE type = "vxlan" -> "VXLAN" [] type = "gre" -> "GRE" [] type = "zmq" -> "ZMQ" [] OTHER -> "FILE"

TaskCount(asked) ==
    Len(FlattenSeq([i \in DOMAIN asked |-> Build(<<asked[i]>>, BufferSizeMb)]))

(***************************************************************************)
(* The buffers of the capturers and of the pipeline that cpworker is told  *)
(* to make fit the memory limit, or the pipeline has the minimum.          *)
(***************************************************************************)
FitsMemory(config) ==
    IF WorkerCfg.executionModel = "rtc" THEN config.pipelineMb = 0
    ELSE \/ config.pipelineMb = WorkerCfg.minBufferMb
         \/ /\ config.pipelineMb > WorkerCfg.minBufferMb
            /\ config.pipelineMb
                 + SumFunction([i \in DOMAIN config.tasks |-> config.tasks[i].capturer.buffer])
                 <= WorkerCfg.memLimitMb

(***************************************************************************)
(* An invalid strategy drops only itself: cpworker never refuses the file  *)
(* that cpdaemon writes (the comment of validateStrategy); every task that *)
(* each strategy has when it is alone runs, or its creation failed, in any *)
(* list; every running task serves one of the strategies; and the buffers  *)
(* of the file fit the memory limit.                                       *)
(***************************************************************************)
DeployedAsAsked ==
    /\ ~refused
    /\ loaded # Nothing => FitsMemory(loaded.config)
    /\ phase = "idle" =>
          /\ Cardinality({t.fingerprint : t \in live} \cup loaded.errors) = TaskCount(loaded.asked)
          /\ \A t \in live : \E i \in DOMAIN loaded.asked :
                /\ loaded.asked[i].channel = Channel(t.outputs[1].type)
                /\ Serves(t, loaded.asked[i])
=============================================================================
