------------------------------- MODULE Outputs -------------------------------
(***************************************************************************)
(* The outputs of a capture task (cpworker/src/output*.c): what each does  *)
(* with one captured packet and with a heartbeat.                          *)
(*                                                                         *)
(* An output is a record; a call that can fail is the set of the outputs   *)
(* it can leave.  Time is in ticks, TicksPerSec of them a second; Sec is   *)
(* the tv_sec of a time.  A packet is its captured length, the number of   *)
(* VLAN tags of its frame, its direction and its timestamp.                *)
(*                                                                         *)
(* Left out: the contents of the frames and the log of send errors.        *)
(***************************************************************************)
EXTENDS WideCounter, Sequences

CONSTANTS
    TicksPerSec,
    EtherLen, TagLen,       \* sizes of the Ethernet header and of a VLAN tag
    RecordLen, LabelLen,    \* header of a record of a batch, MPLS label
    BatchHdr, MaxBatch,     \* header and size of the batch buffer
    MaxNum,                 \* ZMQ_PKTS_FLUSH_MAX_NUM
    MaxFrame,               \* largest frame of a record or a datagram
    FlushDur,               \* ZMQ_PKTS_FLUSH_MAX_DUR_SEC
    FileInterval            \* max_file_interval of the rotating file

(***************************************************************************)
(* The number of records is a uint16 that the heartbeat adds to without a  *)
(* check: the buffer is full before it can overflow.                       *)
(***************************************************************************)
ASSUME SizeAssumption ==
    /\ {TicksPerSec, EtherLen, TagLen, RecordLen, LabelLen, BatchHdr, MaxBatch,
        MaxNum, MaxFrame, FlushDur} \subseteq Nat \ {0}
    /\ FileInterval \in Nat
    /\ BatchHdr + RecordLen + LabelLen + MaxFrame <= MaxBatch
    /\ BatchHdr + MaxNum * (RecordLen + EtherLen) > MaxBatch
    /\ EtherLen + 2 * TagLen <= MaxFrame

Sec(t) == t \div TicksPerSec

(***************************************************************************)
(* Counters of an output: packets and bytes.                               *)
(***************************************************************************)
Fates == {"fwd", "direction_drop", "error_drop", "ratelimit_drop", "heartbeat"}

NewStats == [f \in Fates |-> [packets |-> ZeroCounter, bytes |-> ZeroCounter]]

Count(o, fate, packets, bytes) ==
    [o EXCEPT !.stats[fate] = [packets |-> Add(@.packets, packets), bytes |-> Add(@.bytes, bytes)]]

(***************************************************************************)
(* The token bucket.  A timestamp that does not advance refills nothing,   *)
(* and is remembered all the same.                                         *)
(***************************************************************************)
NewBucket(rate) == [rate |-> rate, tokens |-> rate, last |-> 0]

RefillUncapped(b, ts) ==
    LET elapsed == ts - b.last
    IN b.tokens + (CASE Sec(b.last) = 0 \/ elapsed <= 0 -> 0
                     [] Sec(b.last) > 0 /\ elapsed >= TicksPerSec -> b.rate
                     [] OTHER -> (elapsed * b.rate) \div TicksPerSec)

Refill(b, ts) ==
    LET tokens == RefillUncapped(b, ts)
    IN IF Sec(b.last) > 0 /\ tokens > b.rate THEN b.rate ELSE tokens

ConsumeForgetsTime(b, bytes, ts) ==
    LET tokens == Refill(b, ts)
        ok == tokens >= 8 * bytes
    IN [ok |-> ok,
        bucket |-> IF ok THEN [b EXCEPT !.last = ts, !.tokens = tokens - 8 * bytes]
                         ELSE [b EXCEPT !.tokens = tokens]]

Consume(b, bytes, ts) ==
    LET tokens == Refill(b, ts)
        ok == tokens >= 8 * bytes
    IN [ok |-> ok,
        bucket |-> [b EXCEPT !.last = ts, !.tokens = IF ok THEN tokens - 8 * bytes ELSE tokens]]

(***************************************************************************)
(* admitted remembers the packets the bucket let through: the time of each *)
(* and the bits admitted before it and with it.                            *)
(***************************************************************************)
Bits(admitted) == IF admitted = <<>> THEN 0 ELSE admitted[Len(admitted)].upto

Admitted(admitted, ts, bits) ==
    Append(admitted, [ts |-> ts, before |-> Bits(admitted), upto |-> Bits(admitted) + bits])

(***************************************************************************)
(* What every output does first: drop a packet of unknown direction, then  *)
(* one the rate limit has no tokens for.  then is the rest of the output,  *)
(* late what it does after a drop.                                         *)
(***************************************************************************)
Admit(o, p, len, then(_), late(_)) ==
    LET c == Consume(o.bucket, len, p.ts)
        spent == [o EXCEPT !.bucket = c.bucket]
    IN CASE p.dir = "unknown" -> late(Count(o, "direction_drop", 1, len))
         [] p.dir # "unknown" /\ o.bucket.rate > 0 /\ ~c.ok ->
                late(Count(spent, "ratelimit_drop", 1, len))
         [] p.dir # "unknown" /\ o.bucket.rate > 0 /\ c.ok ->
                then([spent EXCEPT !.admitted = Admitted(@, p.ts, 8 * len)])
         [] OTHER -> then(o)

Nothing(o) == {o}

SlicedLen(o, p) == IF o.slice > 0 /\ o.slice < p.caplen THEN o.slice ELSE p.caplen

FrameLen(o, p) == IF SlicedLen(o, p) < MaxFrame THEN SlicedLen(o, p) ELSE MaxFrame

(***************************************************************************)
(* A packet the kernel or the file took is forwarded; sink is what really  *)
(* left.                                                                   *)
(***************************************************************************)
Sink(o, packets, bytes, beats) ==
    [o EXCEPT !.sink = [packets |-> @.packets + packets, bytes |-> @.bytes + bytes,
                        heartbeats |-> @.heartbeats + beats]]

Forward(o, len) == Count(Sink(o, 1, len, 0), "fwd", 1, len)

(***************************************************************************)
(* The GRE output: one datagram.  The call is retried while the kernel has *)
(* no buffer, up to ten times, so it ends in one of two ways.              *)
(***************************************************************************)
GreSend(o, p) ==
    LET len == FrameLen(o, p)
        send(q) == {Forward(q, len), Count(q, "error_drop", 1, len)}
    IN Admit(o, p, len, send, Nothing)

Take(o, p) ==
    LET len == SlicedLen(o, p)
        take(q) == {Forward(q, len)}
    IN Admit(o, p, len, take, Nothing)

FileWrite(o, p) == Take(o, p)

NullSend(o, p) == Take(o, p)

(***************************************************************************)
(* The rotating file.  CreateDumper is one attempt to make the file named  *)
(* after the second file_time; files remembers the attempts.               *)
(***************************************************************************)
CreateDumper(o, now) ==
    LET tried(ok) == [o EXCEPT !.fileTime = Sec(now), !.dumper = ok, !.dumperError = ~ok,
                               !.files = Append(@, [at |-> Sec(now), last |-> Sec(now)])]
    IN {tried(TRUE), tried(FALSE)}

RetryInterval == IF FileInterval > 0 THEN FileInterval ELSE 1

RetryAtOnce(o, now) == FALSE

RetryLater(o, now) == o.dumperError /\ Sec(now) - o.fileTime < RetryInterval

RotationDue(o, now) == FileInterval > 0 /\ Sec(now) - o.fileTime >= FileInterval

Dump(o, len, now) ==
    Forward([o EXCEPT !.files[Len(o.files)].last = Sec(now)], len)

RotatingWrite(o, p, now) ==
    LET len == SlicedLen(o, p)
        failed(q) == Count(q, "error_drop", 1, len)
        write(q) ==
          CASE RetryLater(q, now) -> {failed(q)}
            [] ~RetryLater(q, now) /\ (~q.dumper \/ RotationDue(q, now)) ->
                   {IF f.dumper THEN Dump(f, len, now) ELSE failed(f) : f \in CreateDumper(q, now)}
            [] OTHER -> {Dump(q, len, now)}
    IN Admit(o, p, len, write, Nothing)
=============================================================================
