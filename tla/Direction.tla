------------------------------ MODULE Direction ------------------------------
(***************************************************************************)
(* The direction of a packet (cpworker/src/req_pattern.c): the addresses   *)
(* and ports are taken from the frame, through VLAN tags and a VXLAN       *)
(* tunnel, and a pattern says which end is the server.                     *)
(*                                                                         *)
(* at is the offset of a layer in the captured data.  sport and dport are  *)
(* what stands where the ports of TCP and UDP are.  An address is a model  *)
(* value, its family included.                                             *)
(***************************************************************************)
EXTENDS Frame, Sequences

VxlanPort(port) == port \in 4700 .. 4799

(***************************************************************************)
(* What was found so far: whether there was an IP layer, and its ends.     *)
(***************************************************************************)
NotFound == [ip |-> FALSE, src |-> "none", dst |-> "none", sport |-> 0, dport |-> 0]

IpFound(f) == [ip |-> TRUE, src |-> f.src, dst |-> f.dst, sport |-> 0, dport |-> 0]

PortsFound(found, f) == [found EXCEPT !.sport = f.sport, !.dport = f.dport]

IpLen(f) == IF f.ip = "v4" THEN Ipv4Len ELSE Ipv6Len

(***************************************************************************)
(* Where the code looks for the L4 header: it does not skip the extension  *)
(* headers of IPv6, whose first one is then the protocol.                  *)
(***************************************************************************)
L4Start(f, at) == at + L2Len(f) + (IF f.ip = "v4" THEN 4 * f.ihl ELSE Ipv6Len)

Protocol(f) == IF f.ip = "v6" /\ (f.ext # <<>> \/ f.first \/ f.later) THEN "ext" ELSE f.l4

RECURSIVE ExtractEther(_, _, _, _)

ExtractVxlan(f, at, caplen, found) ==
    IF caplen < at + VxlanLen + EtherLen + Ipv4Len THEN found
    ELSE ExtractEther(f.inner, at + VxlanLen, caplen, found)

ExtractTcp(f, at, caplen, found) ==
    IF caplen < at + TcpLen THEN found ELSE PortsFound(found, f)

ExtractUdp(f, at, caplen, found) ==
    IF caplen < at + UdpLen THEN found
    ELSE IF VxlanPort(f.dport) THEN ExtractVxlan(f, at + UdpLen, caplen, PortsFound(found, f))
    ELSE PortsFound(found, f)

ExtractL4(f, at, caplen, found) ==
    CASE Protocol(f) = "tcp" -> ExtractTcp(f, at, caplen, found)
      [] Protocol(f) = "udp" -> ExtractUdp(f, at, caplen, found)
      [] OTHER -> found

ExtractIpv4Unchecked(f, at, caplen, found) == ExtractL4(f, L4Start(f, at), caplen, IpFound(f))

ExtractIpv4(f, at, caplen, found) ==
    IF caplen < at + L2Len(f) + Ipv4Len THEN found
    ELSE ExtractL4(f, L4Start(f, at), caplen, IpFound(f))

ExtractIpv6(f, at, caplen, found) ==
    IF caplen < at + L2Len(f) + Ipv6Len THEN found
    ELSE ExtractL4(f, L4Start(f, at), caplen, IpFound(f))

ExtractEther(f, at, caplen, found) ==
    CASE caplen < at + L2Len(f) -> found
      [] caplen >= at + L2Len(f) /\ f.ip = "v4" -> ExtractIpv4(f, at, caplen, found)
      [] caplen >= at + L2Len(f) /\ f.ip = "v6" -> ExtractIpv6(f, at, caplen, found)
      [] OTHER -> found

(***************************************************************************)
(* A custom pattern is a tree of host and port conditions.                 *)
(***************************************************************************)
RECURSIVE Evaluate(_, _, _)

Evaluate(node, addr, port) ==
    CASE node.type = "host" -> node.value = addr
      [] node.type = "port" -> node.value = port
      [] node.type = "and" -> Evaluate(node.left, addr, port) /\ Evaluate(node.right, addr, port)
      [] node.type = "or" -> Evaluate(node.left, addr, port) \/ Evaluate(node.right, addr, port)

JudgeCustom(node, e) ==
    CASE e.ip /\ Evaluate(node, e.src, e.sport) -> "outgoing"
      [] e.ip /\ ~Evaluate(node, e.src, e.sport) /\ Evaluate(node, e.dst, e.dport) -> "incoming"
      [] OTHER -> "unknown"

JudgeAuto(mac, f, caplen) ==
    CASE caplen < EtherLen -> "unknown"
      [] caplen >= EtherLen /\ f.smac = mac -> "outgoing"
      [] OTHER -> "incoming"

JudgeDirection(pattern, f, caplen) ==
    CASE pattern.type = "none" -> "noncheck"
      [] pattern.type = "auto" -> JudgeAuto(pattern.mac, f, caplen)
      [] pattern.type = "custom" ->
             JudgeCustom(pattern.node, ExtractEther(f, 0, caplen, NotFound))

-----------------------------------------------------------------------------
(***************************************************************************)
(* The reference: of the frame and the frames tunnelled in it, the         *)
(* innermost one whose IP header was captured has the ends, and the ports  *)
(* are known when the L4 header of that same frame was captured.  Plain    *)
(* says which frames the reference covers: whole datagrams with a sound    *)
(* header length and no IPv6 extension headers.                            *)
(***************************************************************************)
RECURSIVE Nested(_, _)

Nested(f, at) ==
    LET here == [frame |-> f, at |-> at]
    IN IF f.ip \in {"v4", "v6"} /\ f.l4 = "udp" /\ VxlanPort(f.dport)
       THEN <<here>> \o Nested(f.inner, L4Start(f, at) + UdpLen + VxlanLen)
       ELSE <<here>>

IpEnd(n) == n.at + L2Len(n.frame) + IpLen(n.frame)

L4End(n) == L4Start(n.frame, n.at) + (IF n.frame.l4 = "tcp" THEN TcpLen ELSE UdpLen)

Plain(f) == \A i \in DOMAIN Nested(f, 0) :
    LET g == Nested(f, 0)[i].frame IN g.ip \in {"v4", "v6"} =>
        ~g.first /\ ~g.later /\ g.ext = <<>> /\ g.ihl >= 5

Ends(f, caplen) ==
    LET ns == Nested(f, 0)
        seen == {i \in DOMAIN ns : ns[i].frame.ip \in {"v4", "v6"} /\ IpEnd(ns[i]) <= caplen}
        n == ns[CHOOSE i \in seen : \A j \in seen : j <= i]
        ports == n.frame.l4 \in {"tcp", "udp"} /\ L4End(n) <= caplen
    IN IF seen = {} THEN {}
       ELSE {[end |-> "outgoing", addr |-> n.frame.src, port |-> IF ports THEN n.frame.sport ELSE 0],
             [end |-> "incoming", addr |-> n.frame.dst, port |-> IF ports THEN n.frame.dport ELSE 0]}
=============================================================================
