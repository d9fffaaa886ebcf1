----------------------------- MODULE TaskConfig -----------------------------
(***************************************************************************)
(* How cpworker reads its configuration file (cpworker/src/config.c):      *)
(* which JSON objects it accepts, and the values it takes from them.  An   *)
(* object is a function on the keys it has.  One task that is not accepted *)
(* refuses the whole file.                                                 *)
(*                                                                         *)
(* The objects are the ones cpdaemon writes, so every value has the JSON   *)
(* type of its key; a 32-bit value is within its range.                    *)
(***************************************************************************)
EXTENDS Integers, Sequences

MaxInt == 2147483647
MaxBufferSizeMb == MaxInt \div (1024 * 1024)
MaxSnaplen == 262144

Get(obj, key, default) == IF key \in DOMAIN obj THEN obj[key] ELSE default

Within(obj, key, low, high) == key \in DOMAIN obj => low <= obj[key] /\ obj[key] <= high

NotNegative(obj, key) == key \in DOMAIN obj => obj[key] >= 0

IsArray(value) == value \in Seq({value[i] : i \in DOMAIN value})

PmtudiscOk(obj) == Get(obj, "pmtudisc", "do") \in {"do", "dont", "want"}

ParseSnaplen(obj) ==
    LET n == Get(obj, "snaplen", 2048) IN IF n \in 1 .. MaxSnaplen THEN n ELSE MaxSnaplen

CapturerOk(obj) ==
    /\ obj.type = "libpcap"
    /\ "interface" \in DOMAIN obj.libpcap
    /\ Get(obj.libpcap, "buffer_size_mb", 256) > 0
    /\ NotNegative(obj.libpcap, "timeout_ms")

ParseCapturer(obj) ==
    LET o == obj.libpcap
        size == Get(o, "buffer_size_mb", 256)
    IN [interface |-> o.interface,
        netns |-> Get(o, "netns", ""),
        snaplen |-> ParseSnaplen(o),
        bpf |-> Get(o, "bpf", ""),
        buffer |-> IF size > MaxBufferSizeMb THEN MaxBufferSizeMb ELSE size,
        timeout |-> Get(o, "timeout_ms", 0),
        notFilter |-> Get(o, "not_filter_output_hosts", FALSE)]

SplitOk(o) == "split" \in DOMAIN o => Within(o.split, "max_payload_size", 0, 65535)

ParseSplit(o) ==
    LET split == Get(o, "split", <<>>)
    IN [max |-> Get(split, "max_payload_size", 0),
        recalculate |-> Get(split, "recalculate_checksum", FALSE)]

(***************************************************************************)
(* vni1 and vni2 exclude each other, and one is required.                  *)
(***************************************************************************)
VxlanOk(o) ==
    /\ "host" \in DOMAIN o
    /\ Within(o, "port", 1, 65535)
    /\ "vni1" \in DOMAIN o <=> "vni2" \notin DOMAIN o
    /\ NotNegative(o, "vni1")
    /\ PmtudiscOk(o)
    /\ SplitOk(o)

ParseVxlan(o) ==
    [host |-> o.host,
     port |-> Get(o, "port", 4789),
     captureTime |-> Get(o, "capture_time", FALSE),
     version |-> IF "vni1" \in DOMAIN o THEN 1 ELSE 2,
     vni |-> IF "vni1" \in DOMAIN o THEN [tag |-> o.vni1 % (2 ^ 24)] ELSE o.vni2,
     bindDevice |-> Get(o, "bind_device", ""),
     pmtudisc |-> Get(o, "pmtudisc", ""),
     split |-> ParseSplit(o)]

GreOk(o) == "host" \in DOMAIN o /\ NotNegative(o, "service_tag") /\ PmtudiscOk(o)

ParseGre(o) ==
    [host |-> o.host,
     serviceTag |-> Get(o, "service_tag", 2 ^ 28 - 1),
     bindDevice |-> Get(o, "bind_device", ""),
     pmtudisc |-> Get(o, "pmtudisc", "")]

ZmqOk(o) ==
    /\ {"host", "port"} \subseteq DOMAIN o
    /\ Within(o, "port", 1, 65535)
    /\ NotNegative(o, "hwm")
    /\ NotNegative(o, "service_tag")
    /\ Within(o, "heartbeat_ms", 0, 60000)

(***************************************************************************)
(* The default tag, all ones in 32 bits, is written -1.                    *)
(***************************************************************************)
ParseZmq(o) ==
    [host |-> o.host,
     port |-> o.port,
     hwm |-> Get(o, "hwm", 100),
     serviceTag |-> Get(o, "service_tag", -1),
     uuid |-> Get(o, "uuid", ""),
     heartbeat |-> Get(o, "heartbeat_ms", 0)]

RotatingFileOk(o) == "file_root" \in DOMAIN o /\ NotNegative(o, "max_file_interval")

ParseRotatingFile(o) == [root |-> o.file_root, interval |-> Get(o, "max_file_interval", 60)]

OutputOk(obj) ==
    /\ NotNegative(obj, "rate_limit_mbps")
    /\ NotNegative(obj, "slice")
    /\ \/ obj.type = "vxlan" /\ VxlanOk(obj.vxlan)
       \/ obj.type = "gre" /\ GreOk(obj.gre)
       \/ obj.type = "zmq" /\ ZmqOk(obj.zmq)
       \/ obj.type = "rotating_file" /\ RotatingFileOk(obj.rotating_file)

ParseOutput(obj) ==
    [type |-> obj.type,
     rateLimit |-> Get(obj, "rate_limit_mbps", 0),
     slice |-> Get(obj, "slice", 0),
     config |-> CASE obj.type = "vxlan" -> ParseVxlan(obj.vxlan)
                  [] obj.type = "gre" -> ParseGre(obj.gre)
                  [] obj.type = "zmq" -> ParseZmq(obj.zmq)
                  [] obj.type = "rotating_file" -> ParseRotatingFile(obj.rotating_file)]

ReqPatternOk(obj) ==
    \/ obj.type = "auto"
    \/ obj.type = "custom" /\ "custom" \in DOMAIN obj

ParseReqPattern(obj) ==
    [type |-> obj.type,
     pattern |-> IF obj.type = "custom" THEN Get(obj.custom, "pattern", <<>>) ELSE <<>>]

TaskOk(obj) ==
    /\ "req_pattern" \in DOMAIN obj => ReqPatternOk(obj.req_pattern)
    /\ CapturerOk(obj.capturer)
    /\ IsArray(obj.outputs)
    /\ \A i \in DOMAIN obj.outputs : OutputOk(obj.outputs[i])

ParseTask(obj) ==
    [fingerprint |-> obj.fingerprint,
     reqPattern |-> IF "req_pattern" \in DOMAIN obj THEN ParseReqPattern(obj.req_pattern)
                    ELSE [type |-> "none", pattern |-> <<>>],
     capturer |-> ParseCapturer(obj.capturer),
     outputs |-> [i \in DOMAIN obj.outputs |-> ParseOutput(obj.outputs[i])]]

(***************************************************************************)
(* parse_tasks_json: one bad task, or two tasks of one fingerprint, refuse *)
(* the file.                                                               *)
(***************************************************************************)
TasksOk(objs) ==
    /\ IsArray(objs)
    /\ \A i \in DOMAIN objs : TaskOk(objs[i])
    /\ \A i, j \in DOMAIN objs : objs[i].fingerprint = objs[j].fingerprint => i = j

ParseTasks(objs) == [i \in DOMAIN objs |-> ParseTask(objs[i])]

(***************************************************************************)
(* The sections beside the tasks.  A pipeline needs a buffer of at least   *)
(* 1 MB; with the other execution model there is none.                     *)
(***************************************************************************)
ControlOk(obj) ==
    /\ Get(obj, "type", "") = "unix"
    /\ "unix" \in DOMAIN obj
    /\ "path" \in DOMAIN obj.unix

IsPipeline(obj) == Get(obj, "execution_model", "rtc") = "pipeline"

PipelineOk(obj) == "pipeline" \in DOMAIN obj /\ Get(obj.pipeline, "buffer_size_mb", 0) >= 1

ConfigOk(obj) ==
    /\ TasksOk(obj.tasks)
    /\ Get(obj, "log_level", "INFO") \in {"DEBUG", "INFO", "WARN", "ERROR"}
    /\ Get(obj, "execution_model", "rtc") \in {"rtc", "pipeline"}
    /\ IsPipeline(obj) => PipelineOk(obj)
    /\ "control" \in DOMAIN obj => ControlOk(obj.control)

ParseConfig(obj) ==
    [tasks |-> ParseTasks(obj.tasks),
     logLevel |-> Get(obj, "log_level", "INFO"),
     cpuAffinity |-> Get(obj, "cpu_affinity", ""),
     pipelineMb |-> IF IsPipeline(obj) THEN obj.pipeline.buffer_size_mb ELSE 0,
     control |-> IF "control" \in DOMAIN obj THEN obj.control.unix.path ELSE ""]

(***************************************************************************)
(* The hosts that the outputs of the tasks send to (a file has none): what *)
(* the filter of a capture excludes.                                       *)
(***************************************************************************)
ForwardHosts(output) == IF output.type \in {"vxlan", "gre", "zmq"} THEN {output.config.host} ELSE {}

OutputHosts(tasks) ==
    UNION {UNION {ForwardHosts(tasks[i].outputs[j]) : j \in DOMAIN tasks[i].outputs} : i \in DOMAIN tasks}
=============================================================================
