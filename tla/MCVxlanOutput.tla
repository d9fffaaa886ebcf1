---------------------------- MODULE MCVxlanOutput ----------------------------
(***************************************************************************)
(* Frames for TLC: IPv4 and IPv6, TCP and UDP, options, extension headers, *)
(* fragments, tags, a wrong length, and VXLAN tunnels.                     *)
(***************************************************************************)
EXTENDS VxlanOutput, Direction

Base == [ip |-> "v4", tags |-> 0, ihl |-> 5, ext |-> <<>>, l4 |-> "tcp", off |-> 5,
         first |-> FALSE, later |-> FALSE, declared |-> 51, seq |-> 12, wire |-> 66,
         smac |-> "m1", src |-> "a", dst |-> "b", sport |-> 5000, dport |-> 80,
         inner |-> NoFrame]

Arp == [Base EXCEPT !.ip = "arp"]

Tcp6 == [Base EXCEPT !.ip = "v6", !.ext = <<8>>, !.declared = 39, !.wire = 14 + 40 + 39]

Udp6 == [Base EXCEPT !.ip = "v6", !.l4 = "udp", !.src = "c", !.dst = "d",
                     !.declared = 18, !.wire = 14 + 40 + 18]

Tagged == [Base EXCEPT !.tags = 2, !.ihl = 6, !.off = 6, !.declared = 58, !.wire = 80,
                       !.src = "b", !.dst = "a", !.sport = 80, !.dport = 5000]

Tunnel(inner) ==
    [Base EXCEPT !.l4 = "udp", !.src = "b", !.dst = "c", !.dport = 4789, !.inner = inner,
                 !.declared = 36 + inner.wire, !.wire = 50 + inner.wire]

MCFrames ==
    {Base, Arp, Tcp6, Udp6, Tagged, Tunnel(Tagged), Tunnel(Arp), Tunnel(Udp6),
     [Base EXCEPT !.later = TRUE, !.smac = "m2"], [Base EXCEPT !.declared = 0],
     [Base EXCEPT !.l4 = "icmp"], [Base EXCEPT !.ihl = 4],
     [Tcp6 EXCEPT !.first = TRUE]}

Host(a) == [type |-> "host", value |-> a]
Port(p) == [type |-> "port", value |-> p]
Op(op, l, r) == [type |-> op, left |-> l, right |-> r]

MCPatterns ==
    {[type |-> "none"], [type |-> "auto", mac |-> "m1"],
     [type |-> "custom", node |-> Op("and", Host("a"), Port(5000))],
     [type |-> "custom", node |-> Op("or", Host("c"), Port(0))]}

-----------------------------------------------------------------------------
(***************************************************************************)
(* Every datagram carries the direction of its packet, and that direction  *)
(* is the one the pattern gives to the innermost captured ends, whatever   *)
(* tags, tunnel and truncation stand in between                            *)
(* (req_pattern_judge_pkt_direction).                                      *)
(***************************************************************************)
ReferenceDirection(node, f, caplen) ==
    LET match == {e.end : e \in {e \in Ends(f, caplen) : Evaluate(node, e.addr, e.port)}}
    IN CASE "outgoing" \in match -> "outgoing"
         [] match = {"incoming"} -> "incoming"
         [] OTHER -> "unknown"

DirectionRight ==
    /\ DirectionCarried
    /\ pkt # NoPacket /\ pattern.type = "custom" /\ Plain(pkt.frame) =>
           pkt.dir = ReferenceDirection(pattern.node, pkt.frame, pkt.caplen)
=============================================================================
