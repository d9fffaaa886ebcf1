----------------------------- MODULE PacketSplit -----------------------------
(***************************************************************************)
(* Splitting a TCP or UDP packet into smaller ones                         *)
(* (cpworker/src/packet_split.c).  A frame declares the length of its IP   *)
(* packet, which need not be the length that was captured.                 *)
(*                                                                         *)
(* A packet on the wire is what a receiver reads from it: which bytes of   *)
(* the original payload it carries and its length and sequence fields.     *)
(* Checksums are left out.                                                 *)
(***************************************************************************)
EXTENDS Frame, SequencesExt

CONSTANT SeqSpace     \* sequence numbers are modulo SeqSpace

ASSUME SeqAssumption == SeqSpace \in Nat \ {0}

ExtLen(f) == FoldLeft(LAMBDA x, y : x + y, 0, f.ext)

IpHeaders(f) == IF f.ip = "v4" THEN 4 * f.ihl ELSE Ipv6Len + ExtLen(f)

L4Len(f) == IF f.l4 = "tcp" THEN 4 * f.off ELSE UdpLen

PayloadStart(f) == L2Len(f) + IpHeaders(f) + L4Len(f)

(***************************************************************************)
(* Length of the headers that the declared length counts: the whole IPv4   *)
(* packet, but only what follows the fixed header of IPv6.                 *)
(***************************************************************************)
DeclaredHeaders(f) == (IF f.ip = "v4" THEN IpHeaders(f) ELSE ExtLen(f)) + L4Len(f)

WellFormed(f) ==
    /\ ~f.first /\ ~f.later
    /\ f.ip = "v4" => f.ihl >= 5
    /\ f.l4 = "tcp" => f.off >= 5

(***************************************************************************)
(* parse_packet: whether the packet can be split, and its payload length.  *)
(* The headers must have been captured in full: the last of them is the L4 *)
(* header, and the tests of the ones before it are implied.                *)
(***************************************************************************)
Parses(f, caplen) ==
    /\ f.ip \in {"v4", "v6"}
    /\ f.l4 \in {"tcp", "udp"}
    /\ WellFormed(f)
    /\ caplen >= PayloadStart(f)
    /\ f.declared >= DeclaredHeaders(f)

PayloadLen(f, caplen) ==
    LET declared == f.declared - DeclaredHeaders(f)
        captured == caplen - PayloadStart(f)
    IN IF declared > captured THEN captured ELSE declared

FragmentCount(plen, max) ==
    IF max <= 0 \/ plen <= max THEN 1 ELSE (plen + max - 1) \div max

(***************************************************************************)
(* build_fragment: fragment i of a payload of plen bytes.  Only TCP has a  *)
(* sequence number.                                                        *)
(***************************************************************************)
Fragment(f, from, size, seq) ==
    [from |-> from, size |-> size, declared |-> DeclaredHeaders(f) + size,
     seq |-> IF f.l4 = "tcp" THEN seq ELSE 0,
     udp |-> IF f.l4 = "udp" THEN UdpLen + size ELSE 0]

FragmentSize(plen, from, max) == IF plen - from > max THEN max ELSE plen - from

BuildFragmentKeepsSeq(f, plen, i, max) ==
    Fragment(f, i * max, FragmentSize(plen, i * max, max), f.seq)

BuildFragment(f, plen, i, max) ==
    Fragment(f, i * max, FragmentSize(plen, i * max, max), (f.seq + i * max) % SeqSpace)
=============================================================================
