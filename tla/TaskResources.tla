---------------------------- MODULE TaskResources ----------------------------
(***************************************************************************)
(* What creating a capture task acquires and gives back, call by call      *)
(* (capture_task_new in cpworker/src/task.c and the constructors of the    *)
(* capturer and of the outputs).                                           *)
(*                                                                         *)
(* A constructor is a sequence of steps.  A step that succeeds takes and   *)
(* drops resources; a step that fails undoes what its error path releases. *)
(* "enter" and "leave" change the network namespace of the thread.  A task *)
(* is its configuration and the hosts its filter excludes.                 *)
(***************************************************************************)
EXTENDS Sequences, FiniteSets

Step(do, take, drop, undo) == [do |-> do, take |-> take, drop |-> drop, undo |-> undo]

Call(do, undo) == Step(do, {}, {}, undo)

When(cond, step) == IF cond THEN <<step>> ELSE <<>>

(***************************************************************************)
(* The error label of libpcap_capturer_new; the caller frees the filter.   *)
(***************************************************************************)
LibpcapUndo == {"self netns", "capturer", "interface", "netns", "pcap", "pattern", "filter"}

LibpcapSteps(task) ==
    LET inNetns == task.capturer.netns # ""
        take(do, r) == Step(do, {r}, {}, LibpcapUndo)
        try(do) == Call(do, LibpcapUndo)
    IN <<Step("filter text", {"filter"}, {}, {})>>
         \o When(inNetns, Step("own netns", {"self netns"}, {}, {"filter"}))
         \o When(inNetns, try("enter"))
         \o <<take("pattern", "pattern"), take("create", "pcap"), try("activate"), try("nonblock")>>
         \o When(task.capturer.bpf # "" \/ task.excluded # {}, try("set filter"))
         \o When(inNetns, Step("leave", {}, {"self netns"}, {}))
         \o <<take("alloc", "capturer"), take("alloc", "interface"), take("alloc", "netns"),
              Step("done", {}, {"filter"}, {})>>

LibpcapDestroy == {"pattern", "pcap", "interface", "netns", "capturer"}

(***************************************************************************)
(* vxlan_output_new and gre_output_new: each has its own socket, a         *)
(* datagram one or a raw one, with the same two options.                   *)
(***************************************************************************)
SocketOptions(config) ==
    When(config.bindDevice # "", Call("bind", {"socket"}))
      \o When(config.pmtudisc # "", Call("pmtudisc", {"socket"}))

VxlanSteps(config) ==
    <<Call("address", {}), Step("datagram socket", {"socket"}, {}, {})>>
      \o SocketOptions(config)
      \o <<Step("alloc", {"output"}, {}, {"socket"})>>

GreSteps(config) ==
    <<Call("address", {}), Step("raw socket", {"socket"}, {}, {})>>
      \o SocketOptions(config)
      \o <<Step("alloc", {"output"}, {}, {"socket"})>>

VxlanDestroy == {"socket", "output"}

GreDestroy == {"socket", "output"}

ZmqStepsLeak ==
    <<Call("uuid", {}),
      Step("context", {"context"}, {}, {}),
      Step("pusher", {"pusher"}, {}, {"context"}),
      Call("hwm", {"pusher", "context"}),
      Call("linger", {"pusher", "context"}),
      Call("connect", {"context"}),
      Step("alloc", {"output"}, {}, {"pusher", "context"})>>

ZmqSteps ==
    <<Call("uuid", {}),
      Step("context", {"context"}, {}, {}),
      Step("pusher", {"pusher"}, {}, {"context"}),
      Call("hwm", {"pusher", "context"}),
      Call("linger", {"pusher", "context"}),
      Call("connect", {"pusher", "context"}),
      Step("alloc", {"output"}, {}, {"pusher", "context"})>>

ZmqDestroy == {"pusher", "context", "output"}

(***************************************************************************)
(* The output and its copy of the name of the directory come together: the *)
(* copy is not checked.                                                    *)
(***************************************************************************)
RotatingFileSteps ==
    <<Call("stat", {}), Step("pcap", {"pcap"}, {}, {}), Step("alloc", {"output", "root"}, {}, {"pcap"})>>

RotatingFileDestroy == {"root", "pcap", "output"}

(***************************************************************************)
(* The parts of a task: its struct, the capturer, the array of the outputs *)
(* and the outputs.  A part that fails destroys the ones before it.        *)
(***************************************************************************)
OutputSteps(output) ==
    CASE output.type = "vxlan" -> VxlanSteps(output.config)
      [] output.type = "gre" -> GreSteps(output.config)
      [] output.type = "zmq" -> ZmqSteps
      [] output.type = "rotating_file" -> RotatingFileSteps

OutputDestroy(output) ==
    CASE output.type = "vxlan" -> VxlanDestroy
      [] output.type = "gre" -> GreDestroy
      [] output.type = "zmq" -> ZmqDestroy
      [] output.type = "rotating_file" -> RotatingFileDestroy

Part(steps, destroy) == [steps |-> steps, destroy |-> destroy]

Parts(task) ==
    <<Part(<<Step("alloc", {"task"}, {}, {})>>, {"task"}),
      Part(LibpcapSteps(task), LibpcapDestroy),
      Part(<<Step("alloc", {"array"}, {}, {})>>, {"array"})>>
      \o [i \in DOMAIN task.outputs |-> Part(OutputSteps(task.outputs[i]), OutputDestroy(task.outputs[i]))]

Of(task, part, resources) == {<<task.fingerprint, part, r>> : r \in resources}

(***************************************************************************)
(* capture_task_destroy, of the parts that were made.                      *)
(***************************************************************************)
Destroy(held, task, parts) ==
    held \ UNION {Of(task, p, Parts(task)[p].destroy) : p \in parts}

DestroyAll(held, tasks) ==
    held \ UNION {UNION {Of(t, p, Parts(t)[p].destroy) : p \in DOMAIN Parts(t)} : t \in tasks}
=============================================================================
