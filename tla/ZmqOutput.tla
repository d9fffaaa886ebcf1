------------------------------ MODULE ZmqOutput ------------------------------
(***************************************************************************)
(* The ZMQ output (cpworker/src/output_zmq.c): packets are gathered in a   *)
(* batch that is sent when it is full or old, when a heartbeat is due, and *)
(* when the output is destroyed.                                           *)
(*                                                                         *)
(* held is the content of the buffer, the packets, the heartbeats and the  *)
(* bytes of its records; num, beats, bytes and pos are what the code keeps *)
(* about it.                                                               *)
(***************************************************************************)
EXTENDS Outputs

EmptyBatch ==
    [held |-> [packets |-> 0, heartbeats |-> 0, bytes |-> 0], first |-> 0, pos |-> BatchHdr,
     num |-> 0, beats |-> 0, bytes |-> 0]

(***************************************************************************)
(* zmq_send does not wait: it takes the whole batch or fails.  The batch   *)
(* is emptied either way.  heard is the time of the last batch.            *)
(***************************************************************************)
FlushCountsHeartbeats(o, ok) ==
    Count(o, IF ok THEN "fwd" ELSE "error_drop", o.batch.num, o.batch.bytes)

FlushCounts(o, ok) ==
    LET b == o.batch
    IN IF ok THEN Count(Count(o, "fwd", b.num - b.beats, b.bytes), "heartbeat", b.beats, 0)
             ELSE Count(o, "error_drop", b.num - b.beats, b.bytes)

Flush(o, now) ==
    LET held == o.batch.held
        empty(q) == [q EXCEPT !.batch = EmptyBatch, !.heard = now]
        sent == Sink(FlushCounts(o, TRUE), held.packets, held.bytes, held.heartbeats)
    IN {empty(sent), empty(FlushCounts(o, FALSE))}

IsOld(b, sec) == b.first # 0 /\ sec > b.first + FlushDur

FlushIfStale(o, sec, now) ==
    IF o.batch.num > 0 /\ IsOld(o.batch, sec) THEN Flush(o, now) ELSE {o}

HasRoomForFrame(b, len) == b.pos + len <= MaxBatch

HasRoom(b, len) == b.pos + RecordLen + len <= MaxBatch

(***************************************************************************)
(* A record holds a packet, or nothing but the header of a heartbeat.      *)
(***************************************************************************)
Put(held, data) ==
    IF data > 0 THEN [held EXCEPT !.packets = @ + 1, !.bytes = @ + data]
                ELSE [held EXCEPT !.heartbeats = @ + 1]

AppendRecord(o, data, len, beat) ==
    [o EXCEPT !.batch = [held |-> Put(@.held, data), first |-> @.first, pos |-> @.pos + RecordLen + len,
                         num |-> @.num + 1, beats |-> @.beats + beat, bytes |-> @.bytes + data]]

(***************************************************************************)
(* Length of the Ethernet header and the tag stack, 0 when they were not   *)
(* captured in full.                                                       *)
(***************************************************************************)
L2HeaderLen(p, captured) ==
    LET l2 == EtherLen + TagLen * p.tags IN IF l2 <= captured THEN l2 ELSE 0

(***************************************************************************)
(* Gather: the admitted packet goes into the batch, after a flush when it  *)
(* does not fit or the batch is old.                                       *)
(***************************************************************************)
IsFull(b, len) == b.num >= MaxNum \/ ~HasRoom(b, len)

Gather(o, p, len, now) ==
    LET sec == Sec(p.ts)
        o1 == [o EXCEPT !.batch.first = IF o.batch.num = 0 THEN sec ELSE @]
        room == IF IsFull(o1.batch, len + LabelLen) \/ IsOld(o1.batch, sec)
                THEN {[q EXCEPT !.batch.first = sec] : q \in Flush(o1, now)}
                ELSE {o1}
    IN {[AppendRecord(q, len, len + LabelLen, 0) EXCEPT
            !.batch.first = IF @ = 0 THEN sec ELSE @, !.lastPkt = p.ts] : q \in room}

ZmqFrameLen(o, p, l2) == IF FrameLen(o, p) < l2 THEN l2 ELSE FrameLen(o, p)

AfterDropNothing(o, p, now) == {o}

AfterDrop(o, p, now) == FlushIfStale(o, Sec(p.ts), now)

ZmqSend(o, p, now) ==
    LET l2 == L2HeaderLen(p, IF p.caplen < MaxFrame THEN p.caplen ELSE MaxFrame)
        len == ZmqFrameLen(o, p, l2)
        gather(q) == Gather(q, p, len, now)
        stale(q) == AfterDrop(q, p, now)
    IN IF l2 = 0 THEN stale(Count(o, "error_drop", 1, p.caplen))
                 ELSE Admit(o, p, len, gather, stale)

(***************************************************************************)
(* A heartbeat is a record of an Ethernet header, sent at once with what   *)
(* the batch holds.                                                        *)
(***************************************************************************)
SendHeartbeat(o, now) ==
    LET room == IF HasRoom(o.batch, EtherLen) THEN {o} ELSE Flush(o, now)
        added(q) == AppendRecord([q EXCEPT !.batch.first = IF q.batch.num = 0 THEN Sec(now) ELSE @],
                                 0, EtherLen, 1)
    IN {[r EXCEPT !.lastPkt = now] : r \in UNION {Flush(added(q), now) : q \in room}}

(***************************************************************************)
(* zmq_heartbeat at t, the time the capturer found no packet.  The first   *)
(* test of the times is the coarse one that saves a clock call.            *)
(***************************************************************************)
HeartbeatDue(o, t, now) ==
    /\ o.every > 0
    /\ (Sec(t) - Sec(o.lastPkt)) * TicksPerSec >= o.every - TicksPerSec
    /\ now - o.lastPkt >= o.every

ZmqHeartbeat(o, t, now) ==
    UNION {IF HeartbeatDue(q, t, now) THEN SendHeartbeat(q, now) ELSE {q}
           : q \in FlushIfStale(o, Sec(t), now)}

ZmqDestroy(o, now) == IF o.batch.num > 0 THEN Flush(o, now) ELSE {o}
=============================================================================
