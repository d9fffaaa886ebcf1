----------------------------- MODULE TaskBuilder -----------------------------
(***************************************************************************)
(* How cpdaemon turns the strategies of CPM into the tasks of cpworker     *)
(* (cpdaemon/pkg/cpm/worker_task_builder.go).                              *)
(*                                                                         *)
(* A strategy is a record whose optional fields may be None.  A task is    *)
(* the JSON object that is written: a function on the keys it has, where a *)
(* nil pointer is a missing key.  A request pattern is a sequence of       *)
(* tokens; the other texts are plain values.                               *)
(***************************************************************************)
EXTENDS Integers, Sequences

CONSTANTS
    None,               \* an optional value that is not set
    Ipv4Addresses,      \* texts that are IPv4 addresses
    Containers,         \* containers whose process is found
    InstanceNics,       \* active KVM instance -> its interfaces
    WritableDirs,       \* dump directories that can be created
    DaemonUuid

MaxPort == 65535
MaxPacketSplitBytes == 65535
MaxZmqHeartbeatMs == 60000
PmtudiscOptions == {"do", "dont", "want"}

(***************************************************************************)
(* What is written of a struct: a nil pointer is left out (omitempty).     *)
(***************************************************************************)
Object(struct) == [key \in {k \in DOMAIN struct : struct[k] # None} |-> struct[key]]

If(cond, value) == IF cond THEN value ELSE None

(***************************************************************************)
(* validateStrategy and its checks, on the values of the strategy and of   *)
(* its startup arguments.                                                  *)
(***************************************************************************)
CheckIPv4Address(address) == address \in Ipv4Addresses

CheckPort(port) == port \in 1 .. MaxPort

CheckPmtudisc(option) == option = None \/ option \in PmtudiscOptions

CheckServiceTag(s) == s.serviceTag # None => s.serviceTag >= 0

UsesVni1(s) == s.apiVersion \in {None, "v1"}

ValidVxlan(s) ==
    /\ CheckIPv4Address(s.address)
    /\ s.port # None => CheckPort(s.port)
    /\ CheckPmtudisc(s.args.pmtudisc)
    /\ s.hasPacketSplit /\ s.packetSplitBytes # None => s.packetSplitBytes \in 0 .. MaxPacketSplitBytes
    /\ UsesVni1(s) => CheckServiceTag(s)

ValidGre(s) ==
    CheckIPv4Address(s.address) /\ CheckPmtudisc(s.args.pmtudisc) /\ CheckServiceTag(s)

ValidZmqAnyPort(s) ==
    /\ s.address # ""
    /\ s.port # None
    /\ s.args.zmqHwm # None => s.args.zmqHwm >= 0
    /\ s.zmqHeartbeatMs # None => s.zmqHeartbeatMs \in 0 .. MaxZmqHeartbeatMs
    /\ CheckServiceTag(s)

ValidZmq(s) ==
    /\ s.address # ""
    /\ s.port # None
    /\ CheckPort(s.port)
    /\ s.args.zmqHwm # None => s.args.zmqHwm >= 0
    /\ s.zmqHeartbeatMs # None => s.zmqHeartbeatMs \in 0 .. MaxZmqHeartbeatMs
    /\ CheckServiceTag(s)

ValidFile(s) == s.dumpInterval # None => s.dumpInterval >= 0

ValidateStrategy(s) ==
    /\ s.args.timeout # None => s.args.timeout >= 0
    /\ s.reqPatternType = "CUSTOM" => s.reqPattern \notin {None, <<>>}
    /\ CASE s.channel = "VXLAN" -> ValidVxlan(s)
         [] s.channel = "GRE" -> ValidGre(s)
         [] s.channel = "ZMQ" -> ValidZmq(s)
         [] s.channel = "FILE" -> ValidFile(s)
         [] OTHER -> TRUE

(***************************************************************************)
(* Not filtering the traffic of the outputs is allowed for an interface    *)
(* only if the output is bound to another one.                             *)
(***************************************************************************)
AllowNoFilter(s, item) ==
    \/ item.typ # "interface"
    \/ /\ s.channel \in {"GRE", "VXLAN"}
       /\ s.args.bindDevice \notin {None, item.nic}

(***************************************************************************)
(* The outputs.  The fields of the v2 tag are masked to their widths.      *)
(***************************************************************************)
Vni2(direction, point, extension, domain) ==
    [direction |-> direction % 4, point |-> point % 32, extension |-> extension % 2,
     domain |-> domain % (2 ^ 24)]

Nth(seq, i) == IF i <= Len(seq) THEN seq[i] ELSE 1

ObservationTag(s, item) ==
    Vni2(0,
         IF s.hasObservationTag THEN Nth(s.observationPointIds, item.idx) ELSE 1,
         IF s.extensionFlag = None THEN 0 ELSE s.extensionFlag,
         IF s.hasObservationTag THEN Nth(s.observationDomainIds, item.idx) ELSE 1)

SplitObject(s) ==
    If(s.hasPacketSplit,
       Object([max_payload_size |-> s.packetSplitBytes,
               recalculate_checksum |-> If(s.recalculateChecksum, TRUE)]))

VxlanObject(s, item) ==
    Object([host |-> s.address,
            port |-> s.port,
            capture_time |-> If(s.capTime # None, s.capTime = 1),
            bind_device |-> s.args.bindDevice,
            pmtudisc |-> s.args.pmtudisc,
            split |-> SplitObject(s),
            vni1 |-> If(UsesVni1(s), IF s.serviceTag = None THEN 2 ^ 24 - 1 ELSE s.serviceTag),
            vni2 |-> If(~UsesVni1(s), ObservationTag(s, item))])

GreObject(s) ==
    Object([host |-> s.address, service_tag |-> s.serviceTag,
            bind_device |-> s.args.bindDevice, pmtudisc |-> s.args.pmtudisc])

ZmqObject(s) ==
    Object([host |-> s.address, uuid |-> DaemonUuid, port |-> s.port,
            service_tag |-> s.serviceTag, hwm |-> s.args.zmqHwm,
            heartbeat_ms |-> s.zmqHeartbeatMs])

FileObject(s, item) ==
    Object([file_root |-> <<s.dumpDir>> \o item.subDirs, max_file_interval |-> s.dumpInterval])

Positive(x) == If(x # None, IF x > 0 THEN x ELSE None)

OutputObject(s, item) ==
    Object([slice |-> Positive(s.sliceLen),
            rate_limit_mbps |-> Positive(s.forwardRateLimit),
            type |-> CASE s.channel = "VXLAN" -> "vxlan" [] s.channel = "GRE" -> "gre"
                       [] s.channel = "ZMQ" -> "zmq" [] s.channel = "FILE" -> "rotating_file",
            vxlan |-> If(s.channel = "VXLAN", VxlanObject(s, item)),
            gre |-> If(s.channel = "GRE", GreObject(s)),
            zmq |-> If(s.channel = "ZMQ", ZmqObject(s)),
            rotating_file |-> If(s.channel = "FILE", FileObject(s, item))])

LibpcapObject(s, item, buff) ==
    Object([interface |-> item.nic, buffer_size_mb |-> buff, bpf |-> s.bpf,
            snaplen |-> s.args.snaplen, timeout_ms |-> s.args.timeout,
            not_filter_output_hosts |-> s.args.noFilter, netns |-> item.netns])

ReqPatternObject(s) ==
    CASE s.reqPatternType = "AUTO" -> [type |-> "auto"]
      [] s.reqPatternType = "CUSTOM" -> [type |-> "custom", custom |-> [pattern |-> s.reqPattern]]
      [] OTHER -> None

(***************************************************************************)
(* newTaskConfig: the task of an item, or None on an error.                *)
(***************************************************************************)
NewTaskConfig(s, item, buff) ==
    IF /\ s.args.parses
       /\ ValidateStrategy(s)
       /\ s.args.noFilter = TRUE => AllowNoFilter(s, item)
       /\ s.channel \in {"VXLAN", "GRE", "ZMQ", "FILE"}
       /\ s.channel = "FILE" => s.dumpDir \in WritableDirs
    THEN Object([capturer |-> [type |-> "libpcap", libpcap |-> LibpcapObject(s, item, buff)],
                 outputs |-> <<OutputObject(s, item)>>,
                 req_pattern |-> ReqPatternObject(s)])
    ELSE None

(***************************************************************************)
(* What a loop that appends list after list has at its end.                *)
(***************************************************************************)
Appended(lists) ==
    LET upTo[n \in 0 .. Len(lists)] == IF n = 0 THEN <<>> ELSE upTo[n - 1] \o lists[n]
    IN upTo[Len(lists)]

Item(typ, nic, netns, idx, subDirs) ==
    [typ |-> typ, nic |-> nic, netns |-> netns, idx |-> idx, subDirs |-> subDirs]

(***************************************************************************)
(* The items of a strategy.  The interfaces of a container that is not     *)
(* found still count in the index of the observation tags.                 *)
(***************************************************************************)
ContainerItems(s) ==
    LET all == Appended([i \in DOMAIN s.containerIds |->
                   [j \in DOMAIN s.containerIds[i].nics |->
                       [id |-> s.containerIds[i].id, nic |-> s.containerIds[i].nics[j]]]])
        indexed == [k \in DOMAIN all |->
                       Item(IF all[k].id \in Containers THEN "container" ELSE "missing",
                            all[k].nic, all[k].id, k, <<all[k].id, all[k].nic>>)]
    IN SelectSeq(indexed, LAMBDA item : item.typ = "container")

InterfaceItems(s) ==
    [i \in DOMAIN s.interfaceNames |->
        Item("interface", s.interfaceNames[i], None, i, <<s.interfaceNames[i]>>)]

InstanceItems(s) ==
    LET found == [i \in DOMAIN s.instanceNames |->
                     LET name == s.instanceNames[i]
                     IN IF name \notin DOMAIN InstanceNics \/ InstanceNics[name] = <<>>
                        THEN Item("missing", "", None, i, <<>>)
                        ELSE Item("instance", InstanceNics[name][1], None, i, <<InstanceNics[name][1]>>)]
    IN SelectSeq(found, LAMBDA item : item.typ = "instance")

Items(s) ==
    CASE s.containerIds # <<>> -> ContainerItems(s)
      [] s.containerIds = <<>> /\ s.interfaceNames # <<>> -> InterfaceItems(s)
      [] OTHER -> InstanceItems(s)

(***************************************************************************)
(* addStrategy: the strategy is tried on an item that stands for any.      *)
(***************************************************************************)
TrialItem == Item("interface", "eth0", None, 1, <<>>)

AddStrategy(s, buff) ==
    IF NewTaskConfig(s, TrialItem, buff) = None THEN <<>>
    ELSE SelectSeq([i \in DOMAIN Items(s) |-> NewTaskConfig(s, Items(s)[i], buff)],
                   LAMBDA task : task # None)

(***************************************************************************)
(* build: equal tasks are told apart by their number.                      *)
(***************************************************************************)
Fingerprint(tasks, i) == <<tasks[i], Len(SelectSeq(SubSeq(tasks, 1, i - 1), LAMBDA t : t = tasks[i]))>>

WithFingerprint(task, fingerprint) ==
    [key \in DOMAIN task \cup {"fingerprint"} |->
        IF key = "fingerprint" THEN fingerprint ELSE task[key]]

Build(strategies, buff) ==
    LET tasks == Appended([i \in DOMAIN strategies |-> AddStrategy(strategies[i], buff)])
    IN [i \in DOMAIN tasks |-> WithFingerprint(tasks[i], Fingerprint(tasks, i))]
=============================================================================
