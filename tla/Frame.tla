-------------------------------- MODULE Frame --------------------------------
(***************************************************************************)
(* The layers of a captured frame, as far as cpworker reads them           *)
(* (cpworker/src/req_pattern.c and cpworker/src/packet_split.c): a frame   *)
(* is a record of what its headers say, of the lengths below.  ip is the   *)
(* network layer, tags the number of VLAN tags, ihl and off the header     *)
(* lengths that IPv4 and TCP declare in words, ext the lengths of the IPv6 *)
(* extension headers, first and later whether it is a fragment.            *)
(***************************************************************************)
EXTENDS Integers

EtherLen == 14
VlanLen == 4
Ipv4Len == 20
Ipv6Len == 40
TcpLen == 20
UdpLen == 8
VxlanLen == 8

NoFrame == [ip |-> "none"]

L2Len(f) == EtherLen + VlanLen * f.tags
=============================================================================
