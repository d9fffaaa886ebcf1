----------------------------- MODULE VxlanProofs -----------------------------
(***************************************************************************)
(* Proofs about splitting a packet and sending its datagrams: for frames   *)
(* of every length, every limit of the payload, every sequence space and   *)
(* a send that fails anywhere, what arrived is a prefix of the captured    *)
(* payload, all of it once the packet counts as forwarded, and every       *)
(* datagram carries the direction of the packet.                           *)
(***************************************************************************)
EXTENDS VxlanOutput, TLAPS

(***************************************************************************)
(* Quotient and remainder.                                                 *)
(***************************************************************************)
LEMMA ModSplit ==
    ASSUME NEW a \in Nat, NEW s \in Nat \ {0}
    PROVE  /\ a \div s \in Nat /\ a % s \in Nat /\ a % s < s
           /\ a = (a \div s) * s + (a % s)
OBVIOUS

(***************************************************************************)
(* A remainder is determined by any quotient.                              *)
(***************************************************************************)
LEMMA ModUnique ==
    ASSUME NEW q \in Nat, NEW r \in Nat, NEW s \in Nat \ {0}, r < s
    PROVE  (q * s + r) % s = r
OBVIOUS

(***************************************************************************)
(* Reducing a sequence number before an offset is added to it changes      *)
(* nothing: the header carries the reduced one.                            *)
(***************************************************************************)
LEMMA ModAdd ==
    ASSUME NEW x \in Nat, NEW k \in Nat, NEW s \in Nat \ {0}
    PROVE  ((x % s) + k) % s = (x + k) % s
<1>1. PICK q \in Nat, r \in Nat : r = x % s /\ r < s /\ x = q * s + r
  BY ModSplit, Zenon
<1>2. PICK p \in Nat, t \in Nat : t = (r + k) % s /\ t < s /\ r + k = p * s + t
  <2>1. r + k \in Nat
    OBVIOUS
  <2> QED BY <2>1, ModSplit
<1>3. x + k = (q + p) * s + t
  BY <1>1, <1>2
<1>4. q + p \in Nat
  OBVIOUS
<1>5. ((q + p) * s + t) % s = t
  BY <1>2, <1>4, ModUnique, Zenon
<1> QED BY <1>1, <1>2, <1>3, <1>5

(***************************************************************************)
(* calculate_fragment_count rounds up: all fragments but the last are      *)
(* full, and the last one is not empty.                                    *)
(***************************************************************************)
LEMMA CountFacts ==
    ASSUME NEW plen \in Nat, NEW m \in Nat \ {0}, FragmentCount(plen, m) # 1
    PROVE  /\ FragmentCount(plen, m) \in Nat
           /\ FragmentCount(plen, m) > 1
           /\ (FragmentCount(plen, m) - 1) * m < plen
           /\ plen <= FragmentCount(plen, m) * m
<1>1. plen > m /\ FragmentCount(plen, m) = (plen + m - 1) \div m
  BY DEF FragmentCount
<1>2. PICK q \in Nat, r \in Nat :
          q = (plen + m - 1) \div m /\ r < m /\ plen + m - 1 = q * m + r
  <2>1. plen + m - 1 \in Nat
    OBVIOUS
  <2> QED BY <2>1, ModSplit, Zenon
<1>3. (q - 1) * m = q * m - m
  OBVIOUS
<1>4. q * m \in Nat
  OBVIOUS
<1>5. (q - 1) * m < plen /\ plen <= q * m
  BY <1>2, <1>3, <1>4
<1>6. q # 0 /\ q # 1
  BY <1>1, <1>5
<1> QED BY <1>1, <1>2, <1>5, <1>6

(***************************************************************************)
(* Products keep the order.                                                *)
(***************************************************************************)
LEMMA MulMono ==
    ASSUME NEW a \in Nat, NEW b \in Nat, NEW m \in Nat, a <= b
    PROVE  /\ a * m \in Nat /\ b * m \in Nat /\ a * m <= b * m
           /\ (a + 1) * m = a * m + m
OBVIOUS

(***************************************************************************)
(* The size of fragment i of count: it is never empty or too large, full   *)
(* unless it is the last, and the last one ends where the payload does.    *)
(***************************************************************************)
LEMMA SizeFacts ==
    ASSUME NEW plen \in Nat, NEW m \in Nat \ {0}, FragmentCount(plen, m) # 1,
           NEW i \in Nat, i < FragmentCount(plen, m)
    PROVE  LET n == FragmentCount(plen, m)
               size == FragmentSize(plen, i * m, m)
           IN /\ n \in Nat /\ i * m \in Nat
              /\ size \in 1 .. m
              /\ i + 1 < n => i * m + size = (i + 1) * m /\ (i + 1) * m < plen
              /\ i + 1 = n => i * m + size = plen
<1> DEFINE n == FragmentCount(plen, m)
<1>1. n \in Nat /\ n > 1 /\ (n - 1) * m < plen /\ plen <= n * m
  BY CountFacts, Zenon
<1> HIDE DEF n
<1>2. i <= n - 1 /\ n - 1 \in Nat /\ i < n
  BY <1>1 DEF n
<1>3. i * m \in Nat /\ i * m <= (n - 1) * m /\ (i + 1) * m = i * m + m
  BY <1>2, MulMono, Zenon
<1>4. (n - 1) * m \in Nat /\ n * m = (n - 1) * m + m
  <2>1. (n - 1) + 1 = n
    BY <1>1
  <2> QED BY <1>2, <2>1, MulMono
<1>5. FragmentSize(plen, i * m, m) \in 1 .. m
  BY <1>1, <1>3, <1>4 DEF FragmentSize
<1>6. CASE i + 1 < n
  <2>1. i + 1 <= n - 1 /\ i + 1 \in Nat
    BY <1>1, <1>6
  <2>2. (i + 1) * m <= (n - 1) * m /\ (i + 1) * m \in Nat
    BY <1>2, <2>1, MulMono, Zenon
  <2>3. i * m + m < plen
    BY <1>1, <1>3, <1>4, <2>2
  <2>4. FragmentSize(plen, i * m, m) = m
    BY <1>3, <2>3 DEF FragmentSize
  <2> QED BY <1>1, <1>3, <1>5, <1>6, <2>3, <2>4 DEF n
<1>7. CASE i + 1 = n
  <2>1. n * m = i * m + m
    BY <1>3, <1>7, Zenon
  <2>2. FragmentSize(plen, i * m, m) = plen - i * m
    BY <1>1, <1>3, <2>1 DEF FragmentSize
  <2>3. i * m + FragmentSize(plen, i * m, m) = plen
    BY <1>3, <2>2
  <2> QED BY <1>1, <1>3, <1>5, <1>7, <2>3 DEF n
<1> QED BY <1>1, <1>2, <1>6, <1>7

(***************************************************************************)
(* Bytes from a place on: the stream of a datagram.                        *)
(***************************************************************************)
Chunk(p, from, size) == {<<(p + k) % SeqSpace, from + k>> : k \in 0 .. size - 1}

(***************************************************************************)
(* A chunk may be placed by the reduced sequence number.                   *)
(***************************************************************************)
LEMMA ChunkMod ==
    ASSUME NEW p \in Nat, NEW from \in Nat, NEW size \in Nat
    PROVE  Chunk(p % SeqSpace, from, size) = Chunk(p, from, size)
<1>1. \A k \in 0 .. size - 1 : ((p % SeqSpace) + k) % SeqSpace = (p + k) % SeqSpace
  <2>1. SUFFICES ASSUME NEW k \in 0 .. size - 1
                 PROVE  ((p % SeqSpace) + k) % SeqSpace = (p + k) % SeqSpace
    OBVIOUS
  <2>2. k \in Nat
    OBVIOUS
  <2> HIDE <2>1
  <2> QED BY <2>2, ModAdd, SeqAssumption, Zenon
<1> QED BY <1>1, Zenon DEF Chunk

(***************************************************************************)
(* A prefix of the payload and the chunk that follows it are a prefix.     *)
(***************************************************************************)
LEMMA ChunkAppend ==
    ASSUME NEW f, NEW s \in Nat, s = f.seq, NEW n \in Nat, NEW size \in Nat
    PROVE  Original(f, n + size) = Original(f, n) \cup Chunk(f.seq + n, n, size)
<1> DEFINE B(k) == <<(s + k) % SeqSpace, k>>
<1>1. Chunk(s + n, n, size) = {B(n + k) : k \in 0 .. size - 1}
  <2>1. \A k \in 0 .. size - 1 : (s + n) + k = s + (n + k)
    OBVIOUS
  <2> QED BY <2>1, Zenon DEF Chunk
<1> HIDE DEF B
<1>2. {B(k) : k \in 0 .. n + size - 1} = {B(k) : k \in 0 .. n - 1} \cup {B(n + k) : k \in 0 .. size - 1}
  <2>1. ASSUME NEW k \in 0 .. n + size - 1
        PROVE  B(k) \in {B(j) : j \in 0 .. n - 1} \cup {B(n + j) : j \in 0 .. size - 1}
    <3>1. CASE k < n
      BY <3>1
    <3>2. CASE k >= n
      <4>1. k - n \in 0 .. size - 1 /\ n + (k - n) = k
        BY <3>2
      <4> QED BY <4>1, Zenon
    <3> QED BY <3>1, <3>2
  <2>2. \A j \in 0 .. n - 1 : j \in 0 .. n + size - 1
    OBVIOUS
  <2>3. \A j \in 0 .. size - 1 : n + j \in 0 .. n + size - 1
    OBVIOUS
  <2> QED BY <2>1, <2>2, <2>3, Zenon
<1> QED BY <1>1, <1>2 DEF Original, B

(***************************************************************************)
(* The lengths of a frame are numbers, and a frame that parse_packet takes *)
(* has a payload length.                                                   *)
(***************************************************************************)
LEMMA FrameFacts ==
    ASSUME NEW f \in Frames
    PROVE  /\ f.seq \in Nat /\ f.declared \in Nat /\ f.wire \in Nat
           /\ PayloadStart(f) \in Nat /\ DeclaredHeaders(f) \in Nat
           /\ \A len \in Nat : Parses(f, len) => PayloadLen(f, len) \in Nat
<1>1. /\ f.tags \in Nat /\ f.ihl \in Nat /\ f.off \in Nat /\ f.declared \in Nat
      /\ f.seq \in Nat /\ f.wire \in Nat /\ ExtLen(f) \in Nat
  BY VxlanAssumption, Zenon
<1>2. L2Len(f) \in Nat /\ IpHeaders(f) \in Nat /\ L4Len(f) \in Nat
  BY <1>1 DEF L2Len, IpHeaders, L4Len, EtherLen, VlanLen, Ipv6Len, UdpLen
<1>3. PayloadStart(f) \in Nat /\ DeclaredHeaders(f) \in Nat
  BY <1>1, <1>2 DEF PayloadStart, DeclaredHeaders
<1>4. \A len \in Nat : Parses(f, len) => PayloadLen(f, len) \in Nat
  BY <1>1, <1>3 DEF Parses, PayloadLen
<1> QED BY <1>1, <1>3, <1>4, Zenon

(***************************************************************************)
(* A fragment that declares the length it has is parsed like its packet.   *)
(***************************************************************************)
LEMMA FragmentParses ==
    ASSUME NEW f \in Frames, NEW len \in Nat, Parses(f, len), NEW size \in Nat
    PROVE  Parses([f EXCEPT !.declared = DeclaredHeaders(f) + size], PayloadStart(f) + size)
<1> DEFINE g == [f EXCEPT !.declared = DeclaredHeaders(f) + size]
<1>1. /\ f = [x \in DOMAIN f |-> f[x]]
      /\ {"ip", "l4", "tags", "ihl", "off", "first", "later", "ext", "declared"} \subseteq DOMAIN f
  BY VxlanAssumption, Zenon
<1>2. /\ g.ip = f.ip /\ g.l4 = f.l4 /\ g.first = f.first /\ g.later = f.later
      /\ g.ext = f.ext /\ g.declared = DeclaredHeaders(f) + size
  BY <1>1, Zenon
<1>3. g.tags = f.tags /\ g.ihl = f.ihl /\ g.off = f.off
  BY <1>1, Zenon
<1> HIDE DEF g
<1>4. ExtLen(g) = ExtLen(f)
  BY <1>2, Zenon DEF ExtLen
<1>5. PayloadStart(g) = PayloadStart(f) /\ DeclaredHeaders(g) = DeclaredHeaders(f)
  BY <1>2, <1>3, <1>4, Zenon DEF PayloadStart, DeclaredHeaders, L2Len, IpHeaders, L4Len
<1>6. WellFormed(g)
  BY <1>2, <1>3, Zenon DEF WellFormed, Parses
<1>7. PayloadStart(f) \in Nat /\ DeclaredHeaders(f) \in Nat
  BY FrameFacts, Zenon
<1> QED BY <1>2, <1>5, <1>6, <1>7 DEF Parses, g

-----------------------------------------------------------------------------
(***************************************************************************)
(* The stream that the datagrams of w make, an entry of wire at a time.    *)
(***************************************************************************)
OfEntry(f, e) ==
    Chunk(IF f.l4 = "tcp" THEN e.data.seq ELSE f.seq + e.at, e.data.from, e.data.size)

Stream(f, w) == UNION {OfEntry(f, w[i]) : i \in DOMAIN w}

(***************************************************************************)
(* The inductive invariant.  VTypes: shapes, what the state of sending     *)
(* says of the packet, and the direction.  Split: of a packet that is      *)
(* split, the datagrams sent are the first fragments, each at the place    *)
(* that counting gives it, and the stream so far is a prefix.              *)
(***************************************************************************)
Datagram == [from : Int, size : Int, declared : Int, seq : Int, udp : Int]

Entry(dir) == [data : Datagram, dir : {dir}, at : Int]

VTypes ==
    /\ max \in Nat /\ slice \in Nat
    /\ fate \in {"none", "sending", "fwd", "error_drop", "direction_drop"}
    /\ pkt.len \in Nat
    /\ wire \in Seq(Entry(pkt.dir))
    /\ fate = "none" => pkt = NoPacket /\ wire = <<>>
    /\ fate # "none" => pkt.frame \in Frames
    /\ pkt.dir = "unknown" => wire = <<>> /\ fate # "sending"

Fragments(f, len, w) ==
    \A i \in 1 .. Len(w) :
        /\ w[i].at = (i - 1) * max
        /\ w[i].data = BuildFragment(f, PayloadLen(f, len), i - 1, max)

Split(f, len) ==
    IsSplit(f, len) =>
        /\ Len(wire) <= FragmentCount(PayloadLen(f, len), max)
        /\ fate = "fwd" <=> Len(wire) = FragmentCount(PayloadLen(f, len), max)
        /\ Fragments(f, len, wire)
        /\ Stream(f, wire) = Original(f, Arrived)

VInv == VTypes /\ (fate # "none" => Split(pkt.frame, pkt.len))

(***************************************************************************)
(* Only the empty sequence has no length.                                  *)
(***************************************************************************)
LEMMA EmptyByLen ==
    ASSUME NEW S, NEW w \in Seq(S), Len(w) = 0
    PROVE  w = <<>>
OBVIOUS

(***************************************************************************)
(* Sending a datagram adds its bytes to the stream.                        *)
(***************************************************************************)
LEMMA StreamAppend ==
    ASSUME NEW f, NEW S, NEW w \in Seq(S), NEW e \in S
    PROVE  Stream(f, Append(w, e)) = Stream(f, w) \cup OfEntry(f, e)
<1> DEFINE v == Append(w, e)
<1>1. /\ DOMAIN w = 1 .. Len(w) /\ Len(w) \in Nat
      /\ DOMAIN v = 1 .. Len(w) + 1
      /\ v[Len(w) + 1] = e
      /\ \A i \in 1 .. Len(w) : v[i] = w[i]
  OBVIOUS
<1> HIDE DEF v
<1>2. PICK n \in Nat : n = Len(w)
  BY <1>1, Zenon
<1>3. 1 .. n + 1 = (1 .. n) \cup {n + 1}
  OBVIOUS
<1>4. {OfEntry(f, v[i]) : i \in DOMAIN v} = {OfEntry(f, w[i]) : i \in DOMAIN w} \cup {OfEntry(f, e)}
  BY <1>1, <1>2, <1>3, Zenon
<1>5. UNION {OfEntry(f, v[i]) : i \in DOMAIN v}
        = (UNION {OfEntry(f, w[i]) : i \in DOMAIN w}) \cup OfEntry(f, e)
  BY <1>4, Zenon
<1> QED BY <1>5, Zenon DEF Stream, v

(***************************************************************************)
(* A receiver sees a stream.                                               *)
(***************************************************************************)
LEMMA ReceivedIsStream == \A f : Received(f) = Stream(f, wire)
  BY Zenon DEF Received, Place, Stream, OfEntry, Chunk

(***************************************************************************)
(* What arrived of a packet that is split: full fragments until the last   *)
(* one, then the payload.                                                  *)
(***************************************************************************)
LEMMA ArrivedFacts ==
    ASSUME VTypes, NEW f \in Frames, NEW len \in Nat, IsSplit(f, len),
           Fragments(f, len, wire), Len(wire) <= FragmentCount(PayloadLen(f, len), max)
    PROVE  LET n == FragmentCount(PayloadLen(f, len), max)
           IN /\ Len(wire) < n => Arrived = Len(wire) * max /\ Arrived < PayloadLen(f, len)
              /\ Len(wire) = n => Arrived = PayloadLen(f, len)
              /\ Arrived \in Nat
<1>1. PICK p \in Nat, n \in Nat, m \in Nat \ {0} :
          p = PayloadLen(f, len) /\ n = FragmentCount(p, max) /\ n > 1 /\ m = max
  <2>1. max \in Nat \ {0} /\ PayloadLen(f, len) \in Nat
    BY FrameFacts DEF VTypes, IsSplit
  <2> QED BY <2>1, CountFacts, Zenon DEF IsSplit
<1>2. FragmentCount(p, m) # 1
  BY <1>1
<1>3. PICK l \in Nat : l = Len(wire) /\ l <= n
  BY <1>1 DEF VTypes
<1>4. CASE l = 0
  <2>1. wire = <<>>
    BY <1>3, <1>4, EmptyByLen, Zenon DEF VTypes
  <2>2. Arrived = 0
    BY <2>1, Zenon DEF Arrived
  <2>3. 0 < p
    BY <1>2 DEF FragmentCount
  <2> QED BY <1>1, <1>3, <1>4, <2>2, <2>3
<1>5. CASE l > 0
  <2>1. PICK i \in Nat : l = i + 1
    BY <1>5
  <2>2. wire # <<>>
    BY <1>3, <1>5
  <2>3. wire[l].at = i * m /\ wire[l].data = BuildFragment(f, p, i, m)
    <3>1. l \in 1 .. Len(wire) /\ l - 1 = i
      BY <1>3, <1>5, <2>1
    <3> QED BY <1>1, <3>1, Zenon DEF Fragments
  <2>4. wire[l].data.size = FragmentSize(p, i * m, m)
    BY <2>3 DEF BuildFragment, Fragment
  <2>5. Arrived = i * m + FragmentSize(p, i * m, m)
    BY <1>3, <2>2, <2>3, <2>4 DEF Arrived
  <2>6. i < FragmentCount(p, m)
    BY <1>1, <1>3, <2>1
  <2>7. /\ i * m \in Nat
        /\ FragmentSize(p, i * m, m) \in 1 .. m
        /\ i + 1 < n => i * m + FragmentSize(p, i * m, m) = (i + 1) * m /\ (i + 1) * m < p
        /\ i + 1 = n => i * m + FragmentSize(p, i * m, m) = p
    BY <1>1, <1>2, <2>6, SizeFacts
  <2>8. i * m + FragmentSize(p, i * m, m) \in Nat
    BY <2>7
  <2>9. /\ l < n => Arrived = l * m /\ Arrived < p
        /\ l = n => Arrived = p
        /\ Arrived \in Nat
    BY <2>1, <2>5, <2>7, <2>8, Zenon
  <2> QED BY <1>1, <1>3, <2>9, Zenon
<1> QED BY <1>3, <1>4, <1>5

(***************************************************************************)
(* A datagram is a record of numbers.                                      *)
(***************************************************************************)
LEMMA DatagramTypes ==
    ASSUME VTypes, NEW f \in Frames, NEW len \in Nat, NEW i \in Nat
    PROVE  BuildDatagram(f, len, i) \in Datagram
<1>1. /\ f.seq \in Nat /\ f.declared \in Nat /\ DeclaredHeaders(f) \in Nat
      /\ Parses(f, len) => PayloadLen(f, len) \in Nat
  BY FrameFacts, Zenon
<1>2. Whole(f, len) \in Datagram
  BY <1>1 DEF Whole, Datagram, UdpLen
<1>3. CASE IsSplit(f, len)
  <2>1. PICK p \in Nat, m \in Nat : p = PayloadLen(f, len) /\ m = max
    BY <1>1, <1>3, Zenon DEF IsSplit, VTypes
  <2>2. i * m \in Nat /\ FragmentSize(p, i * m, m) \in Int
    BY DEF FragmentSize
  <2>3. (f.seq + i * m) % SeqSpace \in Int
    <3>1. f.seq + i * m \in Nat
      BY <1>1, <2>2
    <3> QED BY <3>1, SeqAssumption, ModSplit
  <2>4. BuildFragment(f, p, i, m) \in Datagram
    BY <1>1, <2>2, <2>3 DEF BuildFragment, Fragment, Datagram, UdpLen
  <2> QED BY <1>3, <2>1, <2>4, Zenon DEF BuildDatagram
<1> QED BY <1>2, <1>3, Zenon DEF BuildDatagram

(***************************************************************************)
(* The datagram that is sent next starts where the stream ends.            *)
(***************************************************************************)
LEMMA NextChunk ==
    ASSUME NEW f \in Frames, NEW p \in Nat, NEW m \in Nat \ {0}, NEW n \in Nat, NEW dir,
           FragmentSize(p, n * m, m) \in 1 .. m
    PROVE  LET d == BuildFragment(f, p, n, m)
           IN /\ d.size = FragmentSize(p, n * m, m)
              /\ OfEntry(f, [data |-> d, dir |-> dir, at |-> n * m])
                     = Chunk(f.seq + n * m, n * m, d.size)
<1>1. PICK s \in Nat : s = f.seq
  BY FrameFacts, Zenon
<1>2. PICK a \in Nat : a = n * m
  <2>1. n * m \in Nat
    OBVIOUS
  <2> QED BY <2>1, Zenon
<1>3. PICK z \in Nat : z = FragmentSize(p, n * m, m)
  OBVIOUS
<1>4. PICK d : d = BuildFragment(f, p, n, m)
  OBVIOUS
<1>5. /\ d.from = a /\ d.size = z
      /\ f.l4 = "tcp" => d.seq = (s + a) % SeqSpace
  BY <1>1, <1>2, <1>3, <1>4, Zenon DEF BuildFragment, Fragment
<1>6. Chunk((s + a) % SeqSpace, a, z) = Chunk(s + a, a, z)
  <2>1. s + a \in Nat
    OBVIOUS
  <2> QED BY <2>1, ChunkMod
<1>7. OfEntry(f, [data |-> d, dir |-> dir, at |-> a]) = Chunk(s + a, a, z)
  BY <1>1, <1>5, <1>6, Zenon DEF OfEntry
<1> QED BY <1>1, <1>2, <1>3, <1>4, <1>5, <1>7

(***************************************************************************)
(* vxlan_send_packet starts with nothing sent.                             *)
(***************************************************************************)
LEMMA SendPacketKeeps ==
    ASSUME VInv, NEW f \in Frames, NEW caplen \in EtherLen .. f.wire, SendPacket(f, caplen)
    PROVE  VInv'
<1>1. caplen \in Nat
  BY FrameFacts DEF EtherLen
<1>2. FrameLen(caplen) \in Nat
  BY <1>1, VxlanAssumption, Zenon DEF FrameLen, VInv, VTypes
<1>3. wire = <<>> /\ wire' = <<>> /\ max' = max /\ slice' = slice
  BY Zenon DEF SendPacket, VInv, VTypes
<1>4. /\ pkt'.frame = f /\ pkt'.len = FrameLen(caplen) /\ fate' \in {"direction_drop", "sending"}
      /\ pkt'.dir = "unknown" => fate' = "direction_drop"
  BY Zenon DEF SendPacket
<1>5. VTypes'
  BY <1>2, <1>3, <1>4 DEF VTypes, VInv
<1>6. Split(pkt.frame, pkt.len)'
  <2>1. PICK len \in Nat : len = pkt'.len
    BY <1>2, <1>4, Zenon
  <2>2. SUFFICES ASSUME IsSplit(f, len)'
                 PROVE  Split(f, len)'
    BY <1>4, <2>1, Zenon DEF Split
  <2>3. IsSplit(f, len)
    BY <1>3, <2>2, Zenon DEF IsSplit
  <2>4. PayloadLen(f, len) \in Nat /\ max \in Nat \ {0}
    BY <2>3, FrameFacts DEF IsSplit, VInv, VTypes
  <2>5. FragmentCount(PayloadLen(f, len), max) \in Nat /\ FragmentCount(PayloadLen(f, len), max) > 1
    BY <2>3, <2>4, CountFacts, Zenon DEF IsSplit
  <2>6. Len(wire') = 0 /\ fate' # "fwd"
    BY <1>3, <1>4, Zenon
  <2>7. Fragments(f, len, wire)'
    BY <2>6 DEF Fragments
  <2>8. Stream(f, wire') = {}
    BY <1>3 DEF Stream
  <2>9. Original(f, Arrived)' = {}
    <3>1. Arrived' = 0
      BY <1>3, Zenon DEF Arrived
    <3> QED BY <3>1 DEF Original
  <2> QED BY <1>3, <1>4, <2>3, <2>5, <2>6, <2>7, <2>8, <2>9 DEF Split
<1> QED BY <1>5, <1>6, Zenon DEF VInv

(***************************************************************************)
(* do_send_packet: the sequence of datagrams grows by the next fragment.   *)
(***************************************************************************)
LEMMA SendDatagramKeeps ==
    ASSUME VInv, SendDatagram
    PROVE  VInv'
<1>1. PICK f \in Frames, len \in Nat, n \in Nat, m \in Nat :
          f = pkt.frame /\ len = pkt.len /\ n = Len(wire) /\ m = max
  BY DEF VInv, VTypes, SendDatagram
<1>2. PICK d \in Datagram : d = BuildDatagram(f, len, n)
  BY DatagramTypes, Zenon DEF VInv
<1>3. PICK e : e = [data |-> d, dir |-> pkt.dir, at |-> Arrived]
  OBVIOUS
<1>4. /\ wire' = Append(wire, e)
      /\ fate' = IF Len(wire') = Datagrams(f, len) THEN "fwd" ELSE "sending"
      /\ pkt' = pkt /\ max' = max /\ slice' = slice
      /\ fate = "sending"
  BY <1>1, <1>2, <1>3 DEF SendDatagram
<1>5. Arrived \in Int
  <2>1. CASE wire = <<>>
    BY <2>1 DEF Arrived
  <2>2. CASE wire # <<>>
    <3>1. Len(wire) \in DOMAIN wire
      BY <2>2, EmptyByLen DEF VInv, VTypes
    <3>2. wire[Len(wire)] \in Entry(pkt.dir)
      BY <3>1 DEF VInv, VTypes
    <3> QED BY <2>2, <3>2 DEF Arrived, Entry, Datagram
  <2> QED BY <2>1, <2>2, Zenon
<1>6. e \in Entry(pkt.dir)
  BY <1>2, <1>3, <1>5, Zenon DEF Entry
<1>7. VTypes'
  <2>1. wire' \in Seq(Entry(pkt.dir))
    BY <1>4, <1>6 DEF VInv, VTypes
  <2>2. pkt.dir # "unknown" /\ fate' \in {"fwd", "sending"}
    BY <1>4, Zenon DEF VInv, VTypes
  <2> QED BY <1>4, <2>1, <2>2, Zenon DEF VInv, VTypes
<1>8. ASSUME IsSplit(f, len)'
      PROVE  Split(f, len)'
  <2>1. IsSplit(f, len) /\ m # 0
    BY <1>1, <1>4, <1>8 DEF IsSplit
  <2>2. PICK p \in Nat, c \in Nat :
            p = PayloadLen(f, len) /\ c = FragmentCount(p, m) /\ c > 1
    <3>1. PayloadLen(f, len) \in Nat
      BY <2>1, FrameFacts, Zenon DEF IsSplit
    <3> QED BY <1>1, <2>1, <3>1, CountFacts, Zenon DEF IsSplit
  <2>3. /\ n <= c /\ n # c
        /\ Fragments(f, len, wire)
        /\ Stream(f, wire) = Original(f, Arrived)
    BY <1>1, <1>4, <2>1, <2>2 DEF VInv, Split
  <2>4. n < c
    BY <2>3
  <2>5. Arrived = n * m /\ Arrived \in Nat
    BY <1>1, <2>1, <2>2, <2>3, <2>4, ArrivedFacts DEF VInv
  <2>6. FragmentSize(p, n * m, m) \in 1 .. m
    BY <2>1, <2>2, <2>4, SizeFacts
  <2>7. d = BuildFragment(f, p, n, m)
    BY <1>1, <1>2, <2>1, <2>2, Zenon DEF BuildDatagram
  <2>8. d.size = FragmentSize(p, n * m, m) /\ OfEntry(f, e) = Chunk(f.seq + n * m, n * m, d.size)
    BY <1>3, <2>1, <2>5, <2>6, <2>7, NextChunk
  <2>9. /\ Len(wire') = n + 1
        /\ wire'[n + 1] = e
        /\ \A i \in 1 .. n : wire'[i] = wire[i]
    BY <1>1, <1>4, <1>6 DEF VInv, VTypes
  <2>10. Arrived' = n * m + d.size
    <3>1. wire' # <<>>
      BY <2>9
    <3>2. e.at = n * m /\ e.data.size = d.size
      BY <1>3, <2>5, Zenon
    <3> QED BY <2>9, <3>1, <3>2, Zenon DEF Arrived
  <2>11. Stream(f, wire') = Original(f, n * m + d.size)
    <3>1. Stream(f, wire') = Stream(f, wire) \cup OfEntry(f, e)
      BY <1>4, <1>6, StreamAppend DEF VInv, VTypes
    <3>2. d.size \in Nat /\ n * m \in Nat /\ f.seq \in Nat
      BY <2>5, <2>6, <2>8, FrameFacts
    <3>3. Original(f, n * m + d.size) = Original(f, n * m) \cup Chunk(f.seq + n * m, n * m, d.size)
      <4>1. PICK a \in Nat, z \in Nat : a = n * m /\ z = d.size
        BY <3>2, Zenon
      <4>2. Original(f, a + z) = Original(f, a) \cup Chunk(f.seq + a, a, z)
        <5>1. PICK s \in Nat : s = f.seq
          BY <3>2, Zenon
        <5> QED BY <5>1, ChunkAppend
      <4> QED BY <4>1, <4>2, Zenon
    <3> QED BY <2>3, <2>5, <2>8, <3>1, <3>3, Zenon
  <2>12. Fragments(f, len, wire)'
    <3>1. SUFFICES ASSUME NEW i \in 1 .. n + 1
                   PROVE  /\ wire'[i].at = (i - 1) * m
                          /\ wire'[i].data = BuildFragment(f, p, i - 1, m)
      BY <1>1, <1>4, <2>2, <2>9, Zenon DEF Fragments
    <3>2. CASE i = n + 1
      <4>1. i - 1 = n
        BY <3>2
      <4> QED BY <1>3, <2>5, <2>7, <2>9, <3>2, <4>1
    <3>3. CASE i # n + 1
      <4>1. i \in 1 .. n
        BY <3>3
      <4> QED BY <1>1, <2>2, <2>3, <2>9, <4>1 DEF Fragments
    <3> QED BY <3>2, <3>3
  <2>13. fate' = "fwd" <=> n + 1 = c
    BY <1>1, <1>4, <2>1, <2>2, <2>9 DEF Datagrams
  <2>14. n + 1 <= c
    BY <2>4
  <2>15. FragmentCount(PayloadLen(f, len), max)' = c
    BY <1>1, <1>4, <2>2, Zenon
  <2>16. Original(f, Arrived)' = Original(f, n * m + d.size)
    BY <2>10, Zenon
  <2> QED BY <2>9, <2>11, <2>12, <2>13, <2>14, <2>15, <2>16 DEF Split
<1>9. Split(f, len)'
  BY <1>8, Zenon DEF Split
<1> QED BY <1>1, <1>4, <1>7, <1>9, Zenon DEF VInv

(***************************************************************************)
(* The invariant of the output: what was sent of a packet is a sequence of *)
(* its first fragments, in place (send_whole_or_split, do_send_packet).    *)
(***************************************************************************)
THEOREM VxlanInvariant == Spec => []VInv
<1>1. Init => VInv
  BY VxlanAssumption DEF Init, VInv, VTypes, NoPacket
<1>2. ASSUME VInv, [Next]_vars
      PROVE  VInv'
  <2>1. ASSUME NEW f \in Frames, NEW caplen \in EtherLen .. f.wire, SendPacket(f, caplen)
        PROVE  VInv'
    BY <1>2, <2>1, SendPacketKeeps, Zenon
  <2>2. CASE SendDatagram
    BY <1>2, <2>2, SendDatagramKeeps, Zenon
  <2>3. CASE SendFails
    <3>1. /\ pkt' = pkt /\ wire' = wire /\ max' = max /\ slice' = slice
          /\ fate = "sending" /\ fate' = "error_drop"
      BY <2>3, Zenon DEF SendFails
    <3>2. VTypes'
      BY <1>2, <3>1, Zenon DEF VInv, VTypes
    <3>3. Split(pkt.frame, pkt.len)'
      BY <1>2, <3>1, Zenon DEF VInv, Split, IsSplit, Fragments, Arrived
    <3> QED BY <3>2, <3>3, Zenon DEF VInv
  <2>4. CASE Return
    BY <1>2, <2>4 DEF Return, VInv, VTypes, NoPacket
  <2>5. CASE UNCHANGED vars
    <3>1. /\ pkt' = pkt /\ wire' = wire /\ max' = max /\ slice' = slice /\ fate' = fate
      BY <2>5, Zenon DEF vars
    <3>2. VTypes'
      BY <1>2, <3>1, Zenon DEF VInv, VTypes
    <3>3. Split(pkt.frame, pkt.len) => Split(pkt.frame, pkt.len)'
      BY <3>1, Zenon DEF Split, IsSplit, Fragments, Arrived
    <3> QED BY <1>2, <3>1, <3>2, <3>3, Zenon DEF VInv
  <2> QED BY <1>2, <2>1, <2>2, <2>3, <2>4, <2>5 DEF Next
<1> QED BY <1>1, <1>2, PTL DEF Spec

(***************************************************************************)
(* A split packet is the packet, for every frame, limit and sequence       *)
(* space, wherever the capture was cut and whichever send fails            *)
(* (send_whole_or_split, build_fragment).                                  *)
(***************************************************************************)
THEOREM SplitIsThePacket == Spec => []SplitReassembles
<1>1. ASSUME VInv
      PROVE  SplitReassembles
  <2>1. SUFFICES ASSUME pkt # NoPacket, IsSplit(pkt.frame, pkt.len)
                 PROVE  LET f == pkt.frame
                        IN /\ Received(f) = Original(f, Arrived)
                           /\ fate = "fwd" <=> Arrived = PayloadLen(f, pkt.len)
                           /\ \A i \in DOMAIN wire :
                                  /\ wire[i].data.size \in 1 .. max
                                  /\ Parses([f EXCEPT !.declared = wire[i].data.declared],
                                            PayloadStart(f) + wire[i].data.size)
                                  /\ wire[i].data.declared - DeclaredHeaders(f) = wire[i].data.size
                                  /\ f.l4 = "udp" => wire[i].data.udp - UdpLen = wire[i].data.size
    BY Zenon DEF SplitReassembles
  <2>2. PICK f \in Frames, len \in Nat, n \in Nat, m \in Nat \ {0} :
            f = pkt.frame /\ len = pkt.len /\ n = Len(wire) /\ m = max /\ Split(f, len)
    BY <1>1, <2>1 DEF VInv, VTypes, IsSplit
  <2>3. IsSplit(f, len) /\ Parses(f, len)
    BY <2>1, <2>2, Zenon DEF IsSplit
  <2>4. PICK p \in Nat, c \in Nat :
            p = PayloadLen(f, len) /\ c = FragmentCount(p, m) /\ c > 1
    <3>1. PayloadLen(f, len) \in Nat
      BY <2>3, FrameFacts
    <3> QED BY <2>2, <2>3, <3>1, CountFacts, Zenon DEF IsSplit
  <2>5. /\ n <= c
        /\ fate = "fwd" <=> n = c
        /\ Fragments(f, len, wire)
        /\ Stream(f, wire) = Original(f, Arrived)
    BY <2>2, <2>3, <2>4, Zenon DEF Split
  <2>6. Received(f) = Original(f, Arrived)
    BY <2>5, ReceivedIsStream, Zenon
  <2>7. fate = "fwd" <=> Arrived = p
    <3>1. /\ n < c => Arrived < p
          /\ n = c => Arrived = p
          /\ Arrived \in Nat
      BY <1>1, <2>2, <2>3, <2>4, <2>5, ArrivedFacts DEF VInv
    <3> QED BY <2>5, <3>1
  <2>8. ASSUME NEW i \in DOMAIN wire
        PROVE  /\ wire[i].data.size \in 1 .. m
               /\ Parses([f EXCEPT !.declared = wire[i].data.declared],
                         PayloadStart(f) + wire[i].data.size)
               /\ wire[i].data.declared - DeclaredHeaders(f) = wire[i].data.size
               /\ f.l4 = "udp" => wire[i].data.udp - UdpLen = wire[i].data.size
    <3>1. i \in 1 .. n
      BY <1>1, <2>2 DEF VInv, VTypes
    <3>2. PICK j \in Nat : i = j + 1 /\ j = i - 1 /\ j < c
      <4>1. i - 1 \in Nat /\ i - 1 < c /\ i = (i - 1) + 1
        BY <2>5, <3>1
      <4> QED BY <4>1, Zenon
    <3>3. wire[i].data = BuildFragment(f, p, j, m)
      BY <2>2, <2>4, <2>5, <3>1, <3>2, Zenon DEF Fragments
    <3>4. PICK size \in 1 .. m : size = FragmentSize(p, j * m, m)
      BY <2>3, <2>2, <2>4, <3>2, SizeFacts
    <3>5. PICK h \in Nat : h = DeclaredHeaders(f)
      BY FrameFacts, Zenon
    <3>6. /\ wire[i].data.size = size /\ wire[i].data.declared = h + size
          /\ f.l4 = "udp" => wire[i].data.udp = UdpLen + size
      BY <3>3, <3>4, <3>5 DEF BuildFragment, Fragment
    <3>7. Parses([f EXCEPT !.declared = h + size], PayloadStart(f) + size)
      BY <2>3, <3>5, FragmentParses
    <3>8. (h + size) - h = size /\ (UdpLen + size) - UdpLen = size
      BY DEF UdpLen
    <3> QED BY <3>4, <3>5, <3>6, <3>7, <3>8
  <2> QED BY <2>2, <2>4, <2>6, <2>7, <2>8
<1> QED BY <1>1, VxlanInvariant, PTL

(***************************************************************************)
(* No datagram carries another direction than the one that was judged for  *)
(* its packet, and a packet of unknown direction is never sent, whatever   *)
(* the request pattern (vxlan_send_packet, do_send_packet).                *)
(***************************************************************************)
THEOREM DirectionIsCarried == Spec => []DirectionCarried
<1>1. ASSUME VInv
      PROVE  DirectionCarried
  <2>1. ASSUME NEW i \in DOMAIN wire
        PROVE  wire[i].dir = pkt.dir /\ pkt.dir # "unknown"
    <3>1. wire[i] \in Entry(pkt.dir) /\ wire # <<>>
      BY <1>1 DEF VInv, VTypes
    <3> QED BY <1>1, <3>1, Zenon DEF Entry, VInv, VTypes
  <2> QED BY <2>1, Zenon DEF DirectionCarried
<1> QED BY <1>1, VxlanInvariant, PTL
=============================================================================
