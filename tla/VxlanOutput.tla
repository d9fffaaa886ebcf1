----------------------------- MODULE VxlanOutput -----------------------------
(***************************************************************************)
(* A captured packet on its way out of a VXLAN output                      *)
(* (cpworker/src/output_vxlan.c): its direction is judged, and it is sent  *)
(* whole or split, one datagram after the other, any of which may fail.    *)
(* The rate limit and the counters are in module Outputs.                  *)
(***************************************************************************)
EXTENDS PacketSplit

CONSTANTS
    Frames,         \* frames on the link
    Patterns,       \* request patterns
    MaxPayloads,    \* values of split.max_payload_size
    Slices,         \* values of slice, 0 for none
    MaxFrame,       \* VXLAN_MAX_FRAME_LEN
    Judge(_, _, _)  \* req_pattern_judge_pkt_direction: JudgeDirection of module Direction

ASSUME VxlanAssumption ==
    /\ MaxPayloads \subseteq Nat /\ Slices \subseteq Nat /\ MaxFrame \in Nat
    /\ \A f \in Frames :
          /\ f = [x \in DOMAIN f |-> f[x]]
          /\ {"ip", "l4", "tags", "ihl", "off", "first", "later", "ext", "declared"}
                 \subseteq DOMAIN f
          /\ {f.tags, f.ihl, f.off, f.declared, f.seq, f.wire, ExtLen(f)} \subseteq Nat

VARIABLES
    pattern, max, slice,    \* configuration
    pkt,        \* the packet being sent: [frame, caplen, len, dir], or NoPacket
    wire,       \* datagrams of it that were sent: [data, dir, at]
    fate        \* "none", "sending", "fwd", "error_drop", "direction_drop"

vars == <<pattern, max, slice, pkt, wire, fate>>

NoPacket == [frame |-> NoFrame, caplen |-> 0, len |-> 0, dir |-> "none"]

Init ==
    /\ pattern \in Patterns
    /\ max \in MaxPayloads
    /\ slice \in Slices
    /\ pkt = NoPacket
    /\ wire = <<>>
    /\ fate = "none"

FrameLen(caplen) ==
    LET limit == IF slice > 0 /\ slice < MaxFrame THEN slice ELSE MaxFrame
    IN IF caplen < limit THEN caplen ELSE limit

(***************************************************************************)
(* send_whole_or_split: the packet is sent whole when it is small, when it *)
(* cannot be parsed, and when its payload is small.                        *)
(***************************************************************************)
IsSplit(f, len) ==
    /\ max > 0 /\ len > max
    /\ Parses(f, len)
    /\ FragmentCount(PayloadLen(f, len), max) # 1

Datagrams(f, len) == IF IsSplit(f, len) THEN FragmentCount(PayloadLen(f, len), max) ELSE 1

Whole(f, len) ==
    [from |-> 0, size |-> len, declared |-> f.declared, seq |-> f.seq,
     udp |-> f.declared - (DeclaredHeaders(f) - UdpLen)]

BuildDatagram(f, len, i) ==
    IF IsSplit(f, len) THEN BuildFragment(f, PayloadLen(f, len), i, max)
                       ELSE Whole(f, len)

(***************************************************************************)
(* vxlan_send_packet: the direction is judged on what was captured, the    *)
(* frame is cut afterwards; a packet of unknown direction is dropped.      *)
(***************************************************************************)
SendPacket(f, caplen) ==
    LET dir == Judge(pattern, f, caplen)
    IN /\ fate = "none"
       /\ pkt' = [frame |-> f, caplen |-> caplen, len |-> FrameLen(caplen), dir |-> dir]
       /\ fate' = IF dir = "unknown" THEN "direction_drop" ELSE "sending"
       /\ UNCHANGED <<pattern, max, slice, wire>>

(***************************************************************************)
(* What a receiver that only counts has of the packet: at says how much of *)
(* it came before a datagram.                                              *)
(***************************************************************************)
Arrived == IF wire = <<>> THEN 0 ELSE wire[Len(wire)].at + wire[Len(wire)].data.size

(***************************************************************************)
(* do_send_packet: the datagram carries the direction in its VNI.  It may  *)
(* fail after its retries, or be sent in part; then the packet is dropped, *)
(* whatever was sent of it.  A fragment without payload is an error.       *)
(***************************************************************************)
SendDatagram ==
    LET d == BuildDatagram(pkt.frame, pkt.len, Len(wire))
    IN /\ fate = "sending"
       /\ d.size > 0
       /\ wire' = Append(wire, [data |-> d, dir |-> pkt.dir, at |-> Arrived])
       /\ fate' = IF Len(wire') = Datagrams(pkt.frame, pkt.len) THEN "fwd" ELSE "sending"
       /\ UNCHANGED <<pattern, max, slice, pkt>>

SendFails ==
    /\ fate = "sending"
    /\ fate' = "error_drop"
    /\ UNCHANGED <<pattern, max, slice, pkt, wire>>

(***************************************************************************)
(* The packet was counted, and the capturer goes on with the next one.     *)
(***************************************************************************)
Return ==
    /\ fate \notin {"none", "sending"}
    /\ pkt' = NoPacket
    /\ wire' = <<>>
    /\ fate' = "none"
    /\ UNCHANGED <<pattern, max, slice>>

(***************************************************************************)
(* A frame is captured in full or cut by the snapshot length.              *)
(***************************************************************************)
Next ==
    \/ \E f \in Frames : \E caplen \in EtherLen .. f.wire : SendPacket(f, caplen)
    \/ SendDatagram
    \/ SendFails
    \/ Return

Spec == Init /\ [][Next]_vars

-----------------------------------------------------------------------------
(***************************************************************************)
(* The stream a receiver puts together: pairs of a place and a byte.  TCP  *)
(* is placed by sequence number, UDP in the order of arrival.              *)
(***************************************************************************)
Place(f, i) == IF f.l4 = "tcp" THEN wire[i].data.seq ELSE f.seq + wire[i].at

Received(f) ==
    UNION {{<<(Place(f, i) + k) % SeqSpace, wire[i].data.from + k>> : k \in 0 .. wire[i].data.size - 1}
           : i \in DOMAIN wire}

Original(f, plen) == {<<(f.seq + k) % SeqSpace, k>> : k \in 0 .. plen - 1}

(***************************************************************************)
(* A split packet is the packet: the datagrams of a forwarded packet, put  *)
(* together by their sequence numbers, are exactly the payload that was    *)
(* captured, each byte once and over a wrap of the sequence number; none   *)
(* is larger than the limit and each declares the length it has; and       *)
(* before the last one, and after a failure, what was sent is a prefix     *)
(* (send_whole_or_split, build_fragment).                                  *)
(***************************************************************************)
SplitReassembles ==
    pkt # NoPacket /\ IsSplit(pkt.frame, pkt.len) =>
        LET f == pkt.frame
        IN /\ Received(f) = Original(f, Arrived)
           /\ fate = "fwd" <=> Arrived = PayloadLen(f, pkt.len)
           /\ \A i \in DOMAIN wire :
                  /\ wire[i].data.size \in 1 .. max
                  /\ Parses([f EXCEPT !.declared = wire[i].data.declared],
                            PayloadStart(f) + wire[i].data.size)
                  /\ wire[i].data.declared - DeclaredHeaders(f) = wire[i].data.size
                  /\ f.l4 = "udp" => wire[i].data.udp - UdpLen = wire[i].data.size

(***************************************************************************)
(* Every datagram carries the direction of its packet, and no packet of    *)
(* unknown direction is sent (vxlan_send_packet, do_send_packet).          *)
(***************************************************************************)
DirectionCarried == \A i \in DOMAIN wire : wire[i].dir = pkt.dir /\ pkt.dir # "unknown"
=============================================================================
