------------------------------- MODULE DataPath -------------------------------
(***************************************************************************)
(* A capturer (cpworker/src/libpcap.c, pcap_file.c), the callbacks of the  *)
(* task (task.c) and one output: the way of a packet through the worker.   *)
(*                                                                         *)
(* now is the clock.  A poll has a time of its own, at, which is not after *)
(* now: the timestamp of the packet, or the time at which there was none.  *)
(* Times of polls do not go back.                                          *)
(***************************************************************************)
EXTENDS ZmqOutput, FiniteSets

CONSTANTS
    Setups,                 \* [capturer, stats, kind, slice, rate, every]
    Packets,                \* [caplen, tags, dir]
    Wrap,                   \* the kernel's drop counter is modulo Wrap
    DropStatDur,            \* DROP_STAT_DUR_SEC
    MaxLag,                 \* how late a poll reaches the output
    MaxPackets, MaxDrops, MaxNow    \* bounds of the model

ASSUME PathAssumption ==
    /\ Setups \subseteq
         [capturer : {"libpcap", "pcap_file"}, stats : BOOLEAN,
          kind : {"zmq", "gre", "file", "null", "rotating_file"},
          slice : Nat, rate : Nat, every : Nat]
    /\ \A p \in Packets : p.caplen \in Nat /\ p.tags \in Nat
    /\ Wrap \in Nat \ {0}

VARIABLES
    now,
    cap,        \* the capturer
    out,        \* the output
    at,         \* time of the last poll that reached the output
    idle,       \* that poll found no packet
    given,      \* packets handed to the output
    kernel      \* packets the kernel dropped

vars == <<now, cap, out, at, idle, given, kernel>>

NewCapturer(s) ==
    [kind |-> s.capturer, stats |-> s.stats, eof |-> FALSE, started |-> FALSE, prev |-> 0, prevTime |-> 0, base |-> 0,
     drops |-> ZeroCounter, packets |-> ZeroCounter, bytes |-> ZeroCounter]

NewOutput(s, t) ==
    [kind |-> s.kind, slice |-> s.slice, every |-> s.every, open |-> TRUE,
     bucket |-> NewBucket(s.rate), admitted |-> <<>>, stats |-> NewStats,
     sink |-> [packets |-> 0, bytes |-> 0, heartbeats |-> 0],
     batch |-> EmptyBatch, lastPkt |-> t, heard |-> t,
     dumper |-> FALSE, dumperError |-> FALSE, fileTime |-> 0, files |-> <<>>]

Init ==
    /\ now = TicksPerSec
    /\ \E s \in Setups : cap = NewCapturer(s) /\ out = NewOutput(s, now)
    /\ at = now
    /\ idle = FALSE
    /\ given = 0
    /\ kernel = 0

OutputSend(o, p) ==
    CASE o.kind = "zmq" -> ZmqSend(o, p, now)
      [] o.kind = "gre" -> GreSend(o, p)
      [] o.kind = "file" -> FileWrite(o, p)
      [] o.kind = "null" -> NullSend(o, p)
      [] o.kind = "rotating_file" -> RotatingWrite(o, p, now)

OutputHeartbeat(o, t) == IF o.kind = "zmq" THEN ZmqHeartbeat(o, t, now) ELSE {o}

OutputDestroy(o) ==
    {[q EXCEPT !.open = FALSE] : q \in IF o.kind = "zmq" THEN ZmqDestroy(o, now) ELSE {o}}

(***************************************************************************)
(* The drop statistics of libpcap are read at most every DropStatDur       *)
(* seconds; the kernel's counter wraps.  pcap_stats may fail, and always   *)
(* does on a handle without statistics.                                    *)
(***************************************************************************)
DropDiff(c) == ((kernel % Wrap) - c.prev) % Wrap

Sampled(c, sec) == [c EXCEPT !.prev = kernel % Wrap, !.prevTime = sec]

FirstSample(c, sec) == [Sampled(c, sec) EXCEPT !.started = TRUE, !.base = kernel]

NextSample(c, sec) == [Sampled(c, sec) EXCEPT !.drops = Add(@, DropDiff(c))]

DropStat(c, sec) ==
    {c} \cup (CASE ~c.stats -> {}
                [] c.stats /\ ~c.started -> {FirstSample(c, sec)}
                [] OTHER -> IF sec - c.prevTime < DropStatDur THEN {} ELSE {NextSample(c, sec)})

Polling == out.open /\ ~cap.eof

(***************************************************************************)
(* A packet: counted by the capturer, and handed to the output unless its  *)
(* Ethernet header is not complete.                                        *)
(***************************************************************************)
CapturePacket(p, ts) ==
    LET counted == [cap EXCEPT !.packets = Add(@, 1), !.bytes = Add(@, p.caplen)]
        pkt == [caplen |-> p.caplen, tags |-> p.tags, dir |-> p.dir, ts |-> ts]
    IN /\ Polling
       /\ Value(cap.packets) < MaxPackets
       /\ cap' \in DropStat(counted, Sec(ts))
       /\ IF p.caplen < EtherLen
          THEN UNCHANGED <<out, at, idle, given>>
          ELSE /\ out' \in OutputSend(out, pkt)
               /\ at' = ts
               /\ idle' = FALSE
               /\ given' = given + 1
       /\ UNCHANGED <<now, kernel>>

Heartbeat(t) ==
    /\ out' \in OutputHeartbeat(out, t)
    /\ at' = t
    /\ idle' = TRUE
    /\ UNCHANGED <<now, given, kernel>>

(***************************************************************************)
(* No packet is ready.                                                     *)
(***************************************************************************)
CaptureNone(t) ==
    /\ Polling /\ cap.kind = "libpcap"
    /\ cap' \in DropStat(cap, Sec(t))
    /\ Heartbeat(t)

(***************************************************************************)
(* An error of the interface: libpcap.c calls no heartbeat.                *)
(***************************************************************************)
CaptureError ==
    /\ Polling /\ cap.kind = "libpcap"
    /\ cap' \in DropStat(cap, Sec(now))
    /\ UNCHANGED <<now, out, at, idle, given, kernel>>

(***************************************************************************)
(* The end of a file, or a damaged record: from then on only heartbeats.   *)
(***************************************************************************)
EndOfFile(t) ==
    /\ out.open /\ cap.kind = "pcap_file"
    /\ cap' = [cap EXCEPT !.eof = TRUE]
    /\ Heartbeat(t)

Destroy ==
    /\ out.open
    /\ out' \in OutputDestroy(out)
    /\ UNCHANGED <<now, cap, at, idle, given, kernel>>

(***************************************************************************)
(* External: the clock, and packets dropped in the kernel, fewer than Wrap *)
(* of them between two samples.                                            *)
(***************************************************************************)
Tick ==
    /\ out.open /\ now < MaxNow
    /\ now' = now + 1
    /\ UNCHANGED <<cap, out, at, idle, given, kernel>>

KernelDrop(n) ==
    /\ out.open /\ cap.stats
    /\ kernel + n <= MaxDrops
    /\ cap.started => DropDiff(cap) + n < Wrap
    /\ kernel' = kernel + n
    /\ UNCHANGED <<now, cap, out, at, idle, given>>

Terminated ==
    /\ ~out.open
    /\ UNCHANGED vars

PollTimes == {t \in at .. now : now - t <= MaxLag}

Next ==
    \/ \E p \in Packets, ts \in PollTimes : CapturePacket(p, ts)
    \/ \E t \in PollTimes : CaptureNone(t) \/ EndOfFile(t)
    \/ CaptureError
    \/ Destroy
    \/ Tick
    \/ \E n \in 1 .. MaxDrops : KernelDrop(n)
    \/ Terminated

Spec == Init /\ [][Next]_vars

-----------------------------------------------------------------------------
(***************************************************************************)
(* Types and limits.  The batch never outgrows its buffer (MaxBatch bytes) *)
(* or its 16-bit number of records, and the token bucket its capacity.     *)
(***************************************************************************)
TypeOK ==
    /\ out.bucket.tokens \in 0 .. out.bucket.rate
    /\ out.batch.pos \in BatchHdr .. MaxBatch
    /\ out.batch.num = out.batch.held.packets + out.batch.held.heartbeats
    /\ out.batch.num <= MaxNum
    /\ \A f \in Fates : out.stats[f].packets \in Counter /\ out.stats[f].bytes \in Counter
    /\ cap.drops \in Counter /\ cap.packets \in Counter

CountOf(fate) == Value(out.stats[fate].packets)

Dropped ==
    CountOf("direction_drop") + CountOf("error_drop") + CountOf("ratelimit_drop")

(***************************************************************************)
(* No packet is lost unaccounted or counted twice, whatever fails: each    *)
(* one handed to the output is forwarded, or in exactly one drop counter,  *)
(* or in the pending batch, and a destroyed output has none pending; the   *)
(* forward and heartbeat counters are what the sink really took, in        *)
(* packets and in bytes (zmq_flush_packet and the send functions); and the *)
(* capturer's drops are the kernel's up to the last sample, over a wrap of *)
(* the kernel's counter (libpcap_do_capture).                              *)
(***************************************************************************)
Accounted ==
    /\ CountOf("fwd") + Dropped + (out.batch.num - out.batch.beats) = given
    /\ CountOf("fwd") = out.sink.packets
    /\ Value(out.stats["fwd"].bytes) = out.sink.bytes
    /\ CountOf("heartbeat") = out.sink.heartbeats
    /\ ~out.open => out.batch.num = 0
    /\ cap.started => Value(cap.drops) + DropDiff(cap) = kernel - cap.base

(***************************************************************************)
(* The rate limit holds over every window of time, not only on average:    *)
(* the bits of the packets admitted from one to another are at most one    *)
(* second's worth and the rate for the time between them                   *)
(* (token_bucket_consume).                                                 *)
(***************************************************************************)
RateBounded ==
    \A i, j \in DOMAIN out.admitted : i <= j =>
        TicksPerSec * (out.admitted[j].upto - out.admitted[i].before)
            <= out.bucket.rate * (TicksPerSec + out.admitted[j].ts - out.admitted[i].ts)

(***************************************************************************)
(* Packets do not linger and the receiver is not left in silence: at every *)
(* poll that reaches the output, also one whose packet is dropped, the     *)
(* pending batch is no older than FlushDur seconds (zmq_flush_if_stale);   *)
(* and whenever a poll finds no packet and nothing is pending, a batch or  *)
(* a heartbeat was sent within the heartbeat interval (zmq_heartbeat).     *)
(***************************************************************************)
Timely ==
    out.kind = "zmq" /\ out.open =>
        /\ out.batch.num > 0 => Sec(at) - out.batch.first <= FlushDur
        /\ idle /\ out.every > 0 /\ out.batch.num = 0 => at - out.heard < out.every

(***************************************************************************)
(* A rotated file holds only packets of its own interval, and files are    *)
(* created, retries after an error included, at least an interval apart:   *)
(* so no two have the same name, which would truncate the first            *)
(* (rotating_file_write_packet).                                           *)
(***************************************************************************)
FileWindow ==
    \A i \in DOMAIN out.files :
        /\ FileInterval > 0 => out.files[i].last - out.files[i].at < FileInterval
        /\ \A j \in DOMAIN out.files :
               i < j => out.files[j].at - out.files[i].at >= RetryInterval
=============================================================================
