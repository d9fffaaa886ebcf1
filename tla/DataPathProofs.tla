---------------------------- MODULE DataPathProofs ----------------------------
(***************************************************************************)
(* The way of a packet through the worker, for every size of the buffers,  *)
(* every rate, interval, packet and schedule: no packet is lost or counted *)
(* twice, the rate limit holds over every window, batches and heartbeats   *)
(* are timely, and files do not overlap.  The statistics counters are      *)
(* exact for every base and every value.                                   *)
(***************************************************************************)
EXTENDS DataPath, TLAPS

(***************************************************************************)
(* A number is its quotient and its remainder.                             *)
(***************************************************************************)
LEMMA DivMod ==
    ASSUME NEW n \in Nat
    PROVE  /\ n % Base \in 0 .. Base - 1
           /\ n \div Base \in Nat
           /\ n = (n \div Base) * Base + (n % Base)
BY BaseAssumption, SMT

(***************************************************************************)
(* The value of two parts with a carry.                                    *)
(***************************************************************************)
LEMMA CarryArithmetic ==
    ASSUME NEW h \in Int, NEW g \in Int, NEW q \in Int, NEW l \in Int, NEW r \in Int,
           l = q * Base + r
    PROVE  (h + g + q) * Base + r = h * Base + g * Base + l
BY BaseAssumption

(***************************************************************************)
(* The parts of a counter.                                                 *)
(***************************************************************************)
LEMMA CounterParts ==
    ASSUME NEW c \in Counter
    PROVE  c.hi \in Nat /\ c.lo \in 0 .. Base - 1
BY Zenon DEF Counter

(***************************************************************************)
(* bytes_stats_add and packets_stats_add count exactly: the value grows by *)
(* what was added and the low part stays below the base.                   *)
(***************************************************************************)
THEOREM AddIsExact ==
    ASSUME NEW c \in Counter, NEW n \in Nat
    PROVE  Add(c, n) \in Counter /\ Value(Add(c, n)) = Value(c) + n
<1>1. PICK q \in Nat, r \in 0 .. Base - 1 : q = n \div Base /\ r = n % Base
  BY DivMod, Zenon
<1>2. n = q * Base + r
  BY <1>1, DivMod, Zenon
<1>3. PICK h \in Nat, l \in 0 .. Base - 1 : h = c.hi /\ l = c.lo
  BY CounterParts, Zenon
<1>4. n \in Int /\ r \in Int /\ l \in Int /\ Base \in Int
  BY <1>1, <1>3, BaseAssumption
<1>5. CASE l + r >= Base
  <2>1. Add(c, n) = [lo |-> l + r - Base, hi |-> h + q + 1]
    BY <1>1, <1>3, <1>5, BaseAssumption DEF Add
  <2>2. l + r - Base \in 0 .. Base - 1
    BY <1>3, <1>5, BaseAssumption
  <2>3. (h + 1 + q) * Base + r = h * Base + 1 * Base + n
    BY <1>2, <1>4, CarryArithmetic
  <2>4. (h + q + 1) * Base + (l + r - Base) = h * Base + l + n
    BY <1>4, <2>3
  <2> QED BY <1>3, <2>1, <2>2, <2>4 DEF Counter, Value
<1>6. CASE l + r < Base
  <2>1. Add(c, n) = [lo |-> l + r, hi |-> h + q]
    BY <1>1, <1>3, <1>6, BaseAssumption DEF Add
  <2>2. l + r \in 0 .. Base - 1
    BY <1>3, <1>6, BaseAssumption
  <2>3. (h + 0 + q) * Base + r = h * Base + 0 * Base + n
    BY <1>2, <1>4, CarryArithmetic
  <2>4. (h + q) * Base + (l + r) = h * Base + l + n
    BY <1>4, <2>3
  <2> QED BY <1>3, <2>1, <2>2, <2>4 DEF Counter, Value
<1> QED BY <1>4, <1>5, <1>6

(***************************************************************************)
(* bytes_stats_merge and packets_stats_merge, by which the summary of the  *)
(* tasks is made, lose no carry.                                           *)
(***************************************************************************)
THEOREM MergeIsExact ==
    ASSUME NEW c \in Counter, NEW d \in Counter
    PROVE  Merge(c, d) \in Counter /\ Value(Merge(c, d)) = Value(c) + Value(d)
<1>1. PICK h \in Nat, l \in 0 .. Base - 1 : h = c.hi /\ l = c.lo
  BY CounterParts, Zenon
<1>2. PICK g \in Nat, m \in 0 .. Base - 1 : g = d.hi /\ m = d.lo
  BY CounterParts, Zenon
<1>3. l + m \in Nat
  BY BaseAssumption
<1>4. PICK q \in Nat, r \in 0 .. Base - 1 :
          q = (l + m) \div Base /\ r = (l + m) % Base
  BY <1>3, DivMod, Zenon
<1>5. l + m = q * Base + r
  BY <1>3, <1>4, DivMod, Zenon
<1>6. Merge(c, d) = [lo |-> r, hi |-> h + g + q]
  BY <1>1, <1>2, <1>4, Zenon DEF Merge
<1>7. (h + g + q) * Base + r = h * Base + g * Base + (l + m)
  BY <1>5, CarryArithmetic, BaseAssumption
<1>8. (h + g + q) * Base + r = (h * Base + l) + (g * Base + m)
  BY <1>7, BaseAssumption
<1> QED BY <1>1, <1>2, <1>6, <1>8 DEF Counter, Value

(***************************************************************************)
(* The distance from the smaller of two snapshots to the larger.           *)
(***************************************************************************)
LEMMA DistanceIsExact ==
    ASSUME NEW x \in Counter, NEW y \in Counter, ~Less(x, y)
    PROVE  Distance(x, y) \in Counter /\ Value(Distance(x, y)) = Value(x) - Value(y)
<1>1. CASE x.lo < y.lo
  <2>1. x.hi - y.hi - 1 \in Nat
    BY <1>1 DEF Less, Counter
  <2>2. (x.hi - y.hi - 1) * Base = x.hi * Base - y.hi * Base - Base
    BY <1>1, BaseAssumption DEF Counter
  <2> QED BY <1>1, <2>1, <2>2, BaseAssumption DEF Distance, Value, Counter
<1>2. CASE x.lo >= y.lo
  <2>1. x.hi - y.hi \in Nat
    BY <1>2 DEF Less, Counter
  <2>2. (x.hi - y.hi) * Base = x.hi * Base - y.hi * Base
    BY <1>2, BaseAssumption DEF Counter
  <2> QED BY <1>2, <2>1, <2>2, BaseAssumption DEF Distance, Value, Counter
<1> QED BY <1>1, <1>2, BaseAssumption DEF Counter

(***************************************************************************)
(* Comparing two counters part by part orders their values.                *)
(***************************************************************************)
LEMMA LessIsLess ==
    ASSUME NEW x \in Counter, NEW y \in Counter, Less(x, y)
    PROVE  Value(x) < Value(y) /\ ~Less(y, x)
<1>1. CASE x.hi = y.hi
  BY <1>1, BaseAssumption DEF Less, Value, Counter
<1>2. CASE x.hi < y.hi
  <2>1. PICK k \in Nat : y.hi = x.hi + 1 + k
    <3>1. y.hi - x.hi - 1 \in Nat
      BY <1>2 DEF Counter
    <3> QED BY <3>1 DEF Counter
  <2>2. y.hi * Base = x.hi * Base + Base + k * Base
    BY <2>1, BaseAssumption DEF Counter
  <2>3. k * Base >= 0
    BY <2>1, BaseAssumption
  <2> QED BY <1>2, <2>2, <2>3, BaseAssumption DEF Less, Value, Counter
<1> QED BY <1>1, <1>2, Zenon DEF Less, Counter

(***************************************************************************)
(* BytesStats.Sub and PacketsStats.Sub: the difference is exact whichever  *)
(* snapshot is larger, across any number of carries.                       *)
(***************************************************************************)
THEOREM SubIsExact ==
    ASSUME NEW c \in Counter, NEW d \in Counter
    PROVE  /\ Sub(c, d).diff \in Counter
           /\ Sub(c, d).less <=> Value(c) < Value(d)
           /\ Sub(c, d).less => Value(Sub(c, d).diff) = Value(d) - Value(c)
           /\ ~Sub(c, d).less => Value(Sub(c, d).diff) = Value(c) - Value(d)
<1>1. Value(c) \in Nat /\ Value(d) \in Nat
  BY BaseAssumption DEF Value, Counter
<1>2. CASE Less(c, d)
  BY <1>1, <1>2, LessIsLess, DistanceIsExact, Zenon DEF Sub
<1>3. CASE ~Less(c, d)
  <2>1. Distance(c, d) \in Counter /\ Value(Distance(c, d)) = Value(c) - Value(d)
    BY <1>3, DistanceIsExact, Zenon
  <2>2. Value(Distance(c, d)) \in Nat
    BY <2>1, BaseAssumption DEF Value, Counter
  <2> QED BY <1>1, <1>3, <2>1, <2>2 DEF Sub
<1> QED BY <1>2, <1>3, Zenon

-----------------------------------------------------------------------------
(***************************************************************************)
(* The state of an output and of a capturer.                               *)
(***************************************************************************)
Kinds == {"zmq", "gre", "file", "null", "rotating_file"}

HeldRec == [packets : Nat, heartbeats : Nat, bytes : Nat]

BatchRec == [held : HeldRec, first : Nat, pos : Nat, num : Nat, beats : Nat, bytes : Nat]

StatRec == [packets : Counter, bytes : Counter]

BucketRec == [rate : Nat, tokens : Nat, last : Nat]

AdmittedRec == [ts : Nat, before : Nat, upto : Nat]

FileRec == [at : Nat, last : Nat]

OutRec ==
    [kind : Kinds, slice : Nat, every : Nat, open : BOOLEAN,
     bucket : BucketRec, admitted : Seq(AdmittedRec), stats : [Fates -> StatRec],
     sink : HeldRec, batch : BatchRec, lastPkt : Nat, heard : Nat,
     dumper : BOOLEAN, dumperError : BOOLEAN, fileTime : Nat, files : Seq(FileRec)]

CapRec ==
    [kind : {"libpcap", "pcap_file"}, stats : BOOLEAN, eof : BOOLEAN, started : BOOLEAN,
     prev : Nat, prevTime : Nat, base : Nat,
     drops : Counter, packets : Counter, bytes : Counter]

(***************************************************************************)
(* The parts of an output that the calls change together.                  *)
(***************************************************************************)
SameSetup(o, q) == q.kind = o.kind /\ q.slice = o.slice /\ q.every = o.every /\ q.open = o.open

SameCounts(o, q) == q.stats = o.stats /\ q.sink = o.sink

SameBatch(o, q) == q.batch = o.batch /\ q.lastPkt = o.lastPkt /\ q.heard = o.heard

SameRate(o, q) == q.bucket = o.bucket /\ q.admitted = o.admitted

SameFiles(o, q) ==
    /\ q.dumper = o.dumper /\ q.dumperError = o.dumperError
    /\ q.fileTime = o.fileTime /\ q.files = o.files

PacketsOf(o, f) == Value(o.stats[f].packets)

BytesOf(o, f) == Value(o.stats[f].bytes)

OthersSame(o, q) == SameSetup(o, q) /\ SameBatch(o, q) /\ SameRate(o, q) /\ SameFiles(o, q)

(***************************************************************************)
(* What counting and sending do.                                           *)
(***************************************************************************)
Counted(o, q, f, n, b) ==
    /\ q \in OutRec /\ q.sink = o.sink /\ OthersSame(o, q)
    /\ PacketsOf(q, f) = PacketsOf(o, f) + n /\ BytesOf(q, f) = BytesOf(o, f) + b
    /\ \A e \in Fates \ {f} : PacketsOf(q, e) = PacketsOf(o, e) /\ BytesOf(q, e) = BytesOf(o, e)

Sent(o, q, n, b, k) ==
    /\ q \in OutRec /\ q.stats = o.stats /\ OthersSame(o, q)
    /\ q.sink.packets = o.sink.packets + n
    /\ q.sink.bytes = o.sink.bytes + b
    /\ q.sink.heartbeats = o.sink.heartbeats + k

(***************************************************************************)
(* A counter has a natural number for its value, and starts at 0.          *)
(***************************************************************************)
LEMMA ValueFacts ==
    /\ \A c \in Counter : Value(c) \in Nat
    /\ ZeroCounter \in Counter /\ Value(ZeroCounter) = 0
BY BaseAssumption DEF Value, Counter, ZeroCounter

(***************************************************************************)
(* The counters of an output count exactly, one fate at a time.            *)
(***************************************************************************)
LEMMA CountFacts ==
    ASSUME NEW o \in OutRec, NEW f \in Fates, NEW n \in Nat, NEW b \in Nat,
           NEW q, q = Count(o, f, n, b)
    PROVE  Counted(o, q, f, n, b)
<1> DEFINE r == [packets |-> Add(o.stats[f].packets, n), bytes |-> Add(o.stats[f].bytes, b)]
           stats == [o.stats EXCEPT ![f] = r]
<1>1. o.stats \in [Fates -> StatRec] /\ o.stats[f] \in StatRec
    BY Zenon DEF OutRec
<1>2. /\ Add(o.stats[f].packets, n) \in Counter
      /\ Value(Add(o.stats[f].packets, n)) = PacketsOf(o, f) + n
      /\ Add(o.stats[f].bytes, b) \in Counter
      /\ Value(Add(o.stats[f].bytes, b)) = BytesOf(o, f) + b
    BY <1>1, AddIsExact, Zenon DEF StatRec, PacketsOf, BytesOf
<1>3. r \in StatRec
    BY <1>2, Zenon DEF StatRec
<1>4. q = [o EXCEPT !.stats = stats]
    BY Zenon DEF Count
<1>5. stats \in [Fates -> StatRec] /\ stats[f] = r /\ \A e \in Fates \ {f} : stats[e] = o.stats[e]
    BY <1>1, <1>3, Zenon
<1>6. r.packets = Add(o.stats[f].packets, n) /\ r.bytes = Add(o.stats[f].bytes, b)
    BY Zenon
<1> HIDE DEF r, stats
<1>7. /\ q \in OutRec /\ q.stats = stats /\ q.sink = o.sink
      /\ OthersSame(o, q)
    BY <1>4, <1>5 DEF OutRec, OthersSame, SameSetup, SameBatch, SameRate, SameFiles
<1>8. QED
    BY <1>2, <1>5, <1>6, <1>7, Zenon DEF Counted, PacketsOf, BytesOf

(***************************************************************************)
(* What left the worker.                                                   *)
(***************************************************************************)
LEMMA SinkFacts ==
    ASSUME NEW o \in OutRec, NEW n \in Nat, NEW b \in Nat, NEW k \in Nat,
           NEW q, q = Sink(o, n, b, k)
    PROVE  Sent(o, q, n, b, k)
<1> DEFINE s == [packets |-> o.sink.packets + n, bytes |-> o.sink.bytes + b,
                 heartbeats |-> o.sink.heartbeats + k]
<1>1. o.sink \in HeldRec
    BY Zenon DEF OutRec
<1>2. s \in HeldRec
    BY <1>1 DEF HeldRec
<1>3. q = [o EXCEPT !.sink = s]
    BY Zenon DEF Sink
<1>4. s.packets = o.sink.packets + n /\ s.bytes = o.sink.bytes + b /\ s.heartbeats = o.sink.heartbeats + k
    BY Zenon
<1> HIDE DEF s
<1>5. /\ q \in OutRec /\ q.stats = o.stats /\ q.sink = s
      /\ OthersSame(o, q)
    BY <1>2, <1>3, Zenon DEF OutRec, OthersSame, SameSetup, SameBatch, SameRate, SameFiles
<1>6. QED
    BY <1>4, <1>5, Zenon DEF Sent

-----------------------------------------------------------------------------
(***************************************************************************)
(* The counters of an output that was handed given packets.                *)
(***************************************************************************)
DroppedBy(o) ==
    PacketsOf(o, "direction_drop") + PacketsOf(o, "error_drop") + PacketsOf(o, "ratelimit_drop")

CountsInv(o, n) ==
    /\ PacketsOf(o, "fwd") + DroppedBy(o) + (o.batch.num - o.batch.beats) = n
    /\ PacketsOf(o, "fwd") = o.sink.packets
    /\ BytesOf(o, "fwd") = o.sink.bytes
    /\ PacketsOf(o, "heartbeat") = o.sink.heartbeats
    /\ o.batch.num = o.batch.held.packets + o.batch.held.heartbeats
    /\ o.batch.beats = o.batch.held.heartbeats
    /\ o.batch.bytes = o.batch.held.bytes

(***************************************************************************)
(* What is counted is a number.                                            *)
(***************************************************************************)
LEMMA CountsAreNat ==
    ASSUME NEW o \in OutRec
    PROVE  /\ \A e \in Fates : PacketsOf(o, e) \in Nat /\ BytesOf(o, e) \in Nat
           /\ DroppedBy(o) \in Nat
           /\ o.batch.num \in Nat /\ o.batch.beats \in Nat /\ o.batch.bytes \in Nat
           /\ o.batch.held.packets \in Nat /\ o.batch.held.heartbeats \in Nat /\ o.batch.held.bytes \in Nat
           /\ o.sink.packets \in Nat /\ o.sink.bytes \in Nat /\ o.sink.heartbeats \in Nat
<1>1. \A e \in Fates : PacketsOf(o, e) \in Nat /\ BytesOf(o, e) \in Nat
    BY ValueFacts, Zenon DEF OutRec, StatRec, PacketsOf, BytesOf
<1>2. DroppedBy(o) \in Nat
    BY <1>1 DEF DroppedBy, Fates
<1>3. QED
    BY <1>1, <1>2, Zenon DEF OutRec, BatchRec, HeldRec

(***************************************************************************)
(* A packet that is dropped is one more of those handed over.              *)
(***************************************************************************)
LEMMA DropCounts ==
    ASSUME NEW o \in OutRec, NEW n \in Nat, CountsInv(o, n), NEW b \in Nat,
           NEW f \in Fates \ {"fwd", "heartbeat"}, NEW q, q = Count(o, f, 1, b)
    PROVE  q \in OutRec /\ CountsInv(q, n + 1) /\ OthersSame(o, q)
<1>1. f \in Fates
    BY Zenon
<1>2. Counted(o, q, f, 1, b)
    BY <1>1, CountFacts, Zenon
<1>3. q \in OutRec /\ q.sink = o.sink /\ OthersSame(o, q) /\ q.batch = o.batch
    BY <1>2, Zenon DEF Counted, OthersSame, SameBatch
<1>4. DroppedBy(q) = DroppedBy(o) + 1
    BY <1>2, CountsAreNat DEF Counted, DroppedBy, Fates
<1>5. /\ PacketsOf(q, "fwd") = PacketsOf(o, "fwd") /\ BytesOf(q, "fwd") = BytesOf(o, "fwd")
      /\ PacketsOf(q, "heartbeat") = PacketsOf(o, "heartbeat")
    BY <1>2, Zenon DEF Counted, Fates
<1>6. PacketsOf(o, "fwd") \in Nat /\ DroppedBy(o) \in Nat /\ o.batch.num \in Nat /\ o.batch.beats \in Nat
    BY CountsAreNat, Zenon DEF Fates
<1>7. CountsInv(q, n + 1)
    BY <1>3, <1>4, <1>5, <1>6 DEF CountsInv
<1>8. QED
    BY <1>3, <1>7, Zenon

(***************************************************************************)
(* So is one that the sink took.                                           *)
(***************************************************************************)
LEMMA ForwardCounts ==
    ASSUME NEW o \in OutRec, NEW n \in Nat, CountsInv(o, n), NEW b \in Nat,
           NEW q, q = Forward(o, b)
    PROVE  q \in OutRec /\ CountsInv(q, n + 1) /\ OthersSame(o, q)
<1>1. PICK r : r = Sink(o, 1, b, 0)
    BY Zenon
<1>2. Sent(o, r, 1, b, 0)
    BY <1>1, SinkFacts, Zenon
<1>3. r \in OutRec /\ "fwd" \in Fates
    BY <1>2, Zenon DEF Sent, Fates
<1>4. q = Count(r, "fwd", 1, b)
    BY <1>1, Zenon DEF Forward
<1>5. Counted(r, q, "fwd", 1, b)
    BY <1>3, <1>4, CountFacts, Zenon
<1>6. \A e \in Fates : PacketsOf(r, e) = PacketsOf(o, e) /\ BytesOf(r, e) = BytesOf(o, e)
    BY <1>2, Zenon DEF Sent, PacketsOf, BytesOf
<1>7. DroppedBy(q) = DroppedBy(o)
    BY <1>5, <1>6, Zenon DEF Counted, DroppedBy, Fates
<1>8. /\ PacketsOf(q, "fwd") = PacketsOf(o, "fwd") + 1 /\ BytesOf(q, "fwd") = BytesOf(o, "fwd") + b
      /\ PacketsOf(q, "heartbeat") = PacketsOf(o, "heartbeat")
    BY <1>5, <1>6, Zenon DEF Counted, Fates
<1>9. /\ PacketsOf(o, "fwd") \in Nat /\ DroppedBy(o) \in Nat /\ o.batch.num \in Nat
      /\ o.batch.beats \in Nat /\ o.sink.heartbeats \in Nat
    BY CountsAreNat, Zenon DEF Fates
<1>10. /\ q.sink.packets = o.sink.packets + 1 /\ q.sink.bytes = o.sink.bytes + b
       /\ q.sink.heartbeats = o.sink.heartbeats
    BY <1>2, <1>5, <1>9 DEF Sent, Counted
<1>11. q \in OutRec /\ OthersSame(o, q)
    BY <1>2, <1>5, Zenon DEF Sent, Counted, OthersSame, SameSetup, SameBatch, SameRate, SameFiles
<1>12. q.batch = o.batch
    BY <1>11, Zenon DEF OthersSame, SameBatch
<1>13. CountsInv(q, n + 1)
    BY <1>7, <1>8, <1>9, <1>10, <1>12 DEF CountsInv
<1>14. QED
    BY <1>11, <1>13, Zenon


-----------------------------------------------------------------------------
(***************************************************************************)
(* The rate limit.  What was admitted since a packet, and the tokens left, *)
(* are at most a second's worth and the rate for the time since then.      *)
(***************************************************************************)
Within(u, rate, d) == TicksPerSec * u <= rate * d

RateInv(o, t) ==
    /\ o.bucket.tokens <= o.bucket.rate
    /\ o.bucket.last <= t
    /\ o.bucket.last = 0 => o.admitted = <<>>
    /\ o.bucket.last # 0 => o.bucket.last >= TicksPerSec
    /\ \A i \in DOMAIN o.admitted :
           /\ o.admitted[i].ts <= o.bucket.last
           /\ Within(Bits(o.admitted) - o.admitted[i].before + o.bucket.tokens, o.bucket.rate,
                     TicksPerSec + o.bucket.last - o.admitted[i].ts)
    /\ \A i, j \in DOMAIN o.admitted : i <= j =>
           Within(o.admitted[j].upto - o.admitted[i].before, o.bucket.rate,
                  TicksPerSec + o.admitted[j].ts - o.admitted[i].ts)

(***************************************************************************)
(* The sizes are positive.                                                 *)
(***************************************************************************)
LEMMA Sizes ==
    /\ TicksPerSec \in Nat \ {0} /\ EtherLen \in Nat \ {0} /\ TagLen \in Nat \ {0}
    /\ RecordLen \in Nat \ {0} /\ LabelLen \in Nat \ {0} /\ BatchHdr \in Nat \ {0}
    /\ MaxBatch \in Nat \ {0} /\ MaxNum \in Nat \ {0} /\ MaxFrame \in Nat \ {0}
    /\ FlushDur \in Nat \ {0} /\ FileInterval \in Nat
BY SizeAssumption, Zenon

(***************************************************************************)
(* Seconds.                                                                *)
(***************************************************************************)
LEMMA SecFacts ==
    ASSUME NEW t \in Nat
    PROVE  /\ Sec(t) \in Nat
           /\ TicksPerSec * Sec(t) <= t /\ t < TicksPerSec * Sec(t) + TicksPerSec
<1>1. PICK k \in Nat \ {0} : k = TicksPerSec
    BY Sizes, Zenon
<1>2. t \div k \in Nat /\ k * (t \div k) <= t /\ t < k * (t \div k) + k
    BY SMT
<1>3. QED
    BY <1>1, <1>2, Zenon DEF Sec

(***************************************************************************)
(* A time is in second 0 exactly when it is less than a second.            *)
(***************************************************************************)
LEMMA SecZero ==
    ASSUME NEW t \in Nat
    PROVE  Sec(t) = 0 <=> t < TicksPerSec
<1>1. CASE Sec(t) = 0
    BY <1>1, SecFacts, Sizes
<1>2. CASE Sec(t) # 0
  <2>0. PICK k \in Nat, m \in Nat : k = TicksPerSec /\ m = Sec(t)
    BY SecFacts, Sizes, Zenon
  <2>1. k = TicksPerSec /\ m = Sec(t) /\ m >= 1 /\ k * m <= t
    BY <1>2, <2>0, SecFacts
  <2>2. k * m >= k
    BY <2>0, <2>1
  <2>3. QED
    BY <1>2, <2>0, <2>1, <2>2
<1>3. QED
    BY <1>1, <1>2, Zenon

(***************************************************************************)
(* Two bounds add up.                                                      *)
(***************************************************************************)
LEMMA WithinAdds ==
    ASSUME NEW u \in Int, NEW v \in Int, NEW rate \in Int, NEW d \in Int, NEW e \in Int,
           Within(u, rate, d), Within(v, rate, e)
    PROVE  Within(u + v, rate, d + e)
<1>1. PICK k \in Int : k = TicksPerSec
    BY Sizes
<1>2. k * (u + v) = k * u + k * v /\ rate * (d + e) = rate * d + rate * e
    OBVIOUS
<1>3. k * u <= rate * d /\ k * v <= rate * e
    BY <1>1, Zenon DEF Within
<1>4. k * u \in Int /\ k * v \in Int /\ rate * d \in Int /\ rate * e \in Int
    OBVIOUS
<1>5. k * u + k * v <= rate * d + rate * e
    BY <1>3, <1>4
<1>6. QED
    BY <1>1, <1>2, <1>5, Zenon DEF Within

(***************************************************************************)
(* Less is within the same bound.                                          *)
(***************************************************************************)
LEMMA WithinLess ==
    ASSUME NEW u \in Int, NEW v \in Int, NEW rate \in Int, NEW d \in Int,
           Within(u, rate, d), v <= u
    PROVE  Within(v, rate, d)
<1>1. PICK k \in Nat : k = TicksPerSec
    BY Sizes, Zenon
<1>2. k * v <= k * u /\ k * u \in Int /\ k * v \in Int /\ rate * d \in Int
    OBVIOUS
<1>3. k * u <= rate * d
    BY <1>1, Zenon DEF Within
<1>4. k * v <= rate * d
    BY <1>2, <1>3
<1>5. QED
    BY <1>1, <1>4, Zenon DEF Within

(***************************************************************************)
(* A refill gives no more than the rate for the time that passed, and      *)
(* never more than the bucket holds.                                       *)
(***************************************************************************)
LEMMA RefillFacts ==
    ASSUME NEW b \in BucketRec, b.tokens <= b.rate, NEW ts \in Nat, b.last <= ts,
           b.last # 0 => b.last >= TicksPerSec
    PROVE  /\ Refill(b, ts) \in Nat /\ Refill(b, ts) <= b.rate
           /\ Within(Refill(b, ts) - b.tokens, b.rate, ts - b.last)
<1>1. PICK k \in Nat \ {0}, rate \in Nat, tokens \in Nat, last \in Nat :
          k = TicksPerSec /\ rate = b.rate /\ tokens = b.tokens /\ last = b.last
    BY Sizes, Zenon DEF BucketRec
<1>2. PICK d \in Nat : d = ts - last
    BY <1>1
<1>3. tokens <= rate /\ Sec(last) \in Nat /\ rate * d \in Nat
    BY <1>1, SecFacts
<1>4. CASE Sec(last) = 0 \/ d = 0
  <2>1. RefillUncapped(b, ts) = tokens
    BY <1>1, <1>2, <1>3, <1>4 DEF RefillUncapped
  <2>2. Refill(b, ts) = tokens
    BY <1>1, <1>3, <2>1 DEF Refill
  <2>3. k * (tokens - tokens) <= rate * d
    BY <1>3
  <2>4. QED
    BY <1>1, <1>2, <1>3, <2>2, <2>3, Zenon DEF Within
<1>5. CASE Sec(last) > 0 /\ d # 0
  <2>1. PICK g \in Nat : RefillUncapped(b, ts) = tokens + g /\ k * g <= rate * d
    <3>1. CASE d >= k
      <4>1. RefillUncapped(b, ts) = tokens + rate
        BY <1>1, <1>2, <1>3, <1>5, <3>1 DEF RefillUncapped
      <4>2. k * rate <= rate * d
        BY <3>1
      <4>3. QED
        BY <4>1, <4>2, Zenon
    <3>2. CASE d < k
      <4>1. RefillUncapped(b, ts) = tokens + ((d * rate) \div k)
        BY <1>1, <1>2, <1>3, <1>5, <3>2 DEF RefillUncapped
      <4>2. PICK m \in Nat : m = d * rate /\ m = rate * d
        OBVIOUS
      <4>3. (m \div k) \in Nat /\ k * (m \div k) <= m
        BY SMT
      <4>4. QED
        BY <4>1, <4>2, <4>3, Zenon
    <3>3. QED
      BY <3>1, <3>2
  <2>2. PICK c \in Nat : c = Refill(b, ts) /\ c <= rate /\ c <= tokens + g
    BY <1>1, <1>3, <1>5, <2>1 DEF Refill
  <2>3. k * (c - tokens) <= k * g /\ k * (c - tokens) \in Int /\ k * g \in Int
    BY <2>2
  <2>4. k * (c - tokens) <= rate * d
    BY <1>3, <2>1, <2>3
  <2>5. QED
    BY <1>1, <1>2, <2>2, <2>4, Zenon DEF Within
<1>6. QED
    BY <1>3, <1>4, <1>5


-----------------------------------------------------------------------------
(***************************************************************************)
(* What admitting a packet leaves: the time and the tokens of the bucket,  *)
(* and for a packet let through what was admitted.                         *)
(***************************************************************************)
SameButRate(o, q) ==
    /\ q \in OutRec /\ SameSetup(o, q) /\ SameCounts(o, q) /\ SameBatch(o, q) /\ SameFiles(o, q)

Spent(o, len, ts) == [o EXCEPT !.bucket = Consume(o.bucket, len, ts).bucket]

Passed(o, len, ts) == [Spent(o, len, ts) EXCEPT !.admitted = Admitted(@, ts, 8 * len)]

(***************************************************************************)
(* The bucket after a packet.                                              *)
(***************************************************************************)
LEMMA ConsumeFacts ==
    ASSUME NEW b \in BucketRec, b.tokens <= b.rate, NEW ts \in Nat, b.last <= ts, NEW len \in Nat,
           b.last # 0 => b.last >= TicksPerSec, NEW c, c = Consume(b, len, ts)
    PROVE  /\ c.bucket \in BucketRec /\ c.bucket.rate = b.rate /\ c.bucket.last = ts
           /\ c.ok => c.bucket.tokens = Refill(b, ts) - 8 * len
           /\ ~c.ok => c.bucket.tokens = Refill(b, ts)
           /\ c.bucket.tokens <= b.rate
<1>1. PICK k \in Nat : k = Refill(b, ts) /\ k <= b.rate
    BY RefillFacts, Zenon
<1>2. CASE k >= 8 * len
  <2>1. c.ok /\ c.bucket = [b EXCEPT !.last = ts, !.tokens = k - 8 * len]
    BY <1>1, <1>2, Zenon DEF Consume
  <2>2. k - 8 * len \in Nat /\ k - 8 * len <= b.rate
    BY <1>1, <1>2 DEF BucketRec
  <2>3. QED
    BY <1>1, <2>1, <2>2 DEF BucketRec
<1>3. CASE ~(k >= 8 * len)
  <2>1. ~c.ok /\ c.bucket = [b EXCEPT !.last = ts, !.tokens = k]
    BY <1>1, <1>3, Zenon DEF Consume
  <2>2. QED
    BY <1>1, <2>1, Zenon DEF BucketRec
<1>4. QED
    BY <1>2, <1>3, Zenon

(***************************************************************************)
(* Append.                                                                 *)
(***************************************************************************)
LEMMA AppendFacts ==
    ASSUME NEW S, NEW s \in Seq(S), NEW e \in S, NEW r, r = Append(s, e)
    PROVE  /\ r \in Seq(S) /\ Len(r) = Len(s) + 1 /\ DOMAIN r = 1 .. Len(s) + 1 /\ r # <<>>
           /\ DOMAIN s = 1 .. Len(s) /\ Len(s) \in Nat
           /\ \A i \in 1 .. Len(s) : r[i] = s[i]
           /\ r[Len(s) + 1] = e
<1>1. r \in Seq(S) /\ Len(r) = Len(s) + 1 /\ DOMAIN r = 1 .. Len(s) + 1
    OBVIOUS
<1>2. r # <<>>
    BY <1>1
<1>3. DOMAIN s = 1 .. Len(s) /\ Len(s) \in Nat
    OBVIOUS
<1>4. \A i \in 1 .. Len(s) : r[i] = s[i]
    OBVIOUS
<1>5. r[Len(s) + 1] = e
    OBVIOUS
<1>6. QED
    BY <1>1, <1>2, <1>3, <1>4, <1>5, Zenon

(***************************************************************************)
(* What was admitted.                                                      *)
(***************************************************************************)
LEMMA AdmittedFacts ==
    ASSUME NEW s \in Seq(AdmittedRec)
    PROVE  /\ Len(s) \in Nat /\ DOMAIN s = 1 .. Len(s) /\ Bits(s) \in Nat
           /\ \A i \in DOMAIN s : s[i].ts \in Nat /\ s[i].before \in Nat /\ s[i].upto \in Nat
<1>1. Len(s) \in Nat /\ DOMAIN s = 1 .. Len(s) /\ \A i \in DOMAIN s : s[i] \in AdmittedRec
    OBVIOUS
<1>2. \A i \in DOMAIN s : s[i].ts \in Nat /\ s[i].before \in Nat /\ s[i].upto \in Nat
    BY <1>1, Zenon DEF AdmittedRec
<1>3. CASE s = <<>>
    BY <1>1, <1>2, <1>3, Zenon DEF Bits
<1>4. CASE s # <<>>
  <2>1. Len(s) # 0
    BY <1>4
  <2>2. Len(s) \in DOMAIN s
    BY <1>1, <2>1
  <2>3. Bits(s) = s[Len(s)].upto
    BY <1>4, Zenon DEF Bits
  <2>4. QED
    BY <1>1, <1>2, <2>2, <2>3, Zenon
<1>5. QED
    BY <1>3, <1>4, Zenon

(***************************************************************************)
(* The time of a packet, whether it is let through or not, and the tokens  *)
(* the bucket is refilled with keep what was admitted within the bound.    *)
(***************************************************************************)
LEMMA RefillKeepsWithin ==
    ASSUME NEW o \in OutRec, NEW t \in Nat, RateInv(o, t), NEW ts \in Nat, t <= ts,
           NEW i \in DOMAIN o.admitted
    PROVE  Within(Bits(o.admitted) - o.admitted[i].before + Refill(o.bucket, ts), o.bucket.rate,
                  TicksPerSec + ts - o.admitted[i].ts)
<1>1. o.bucket \in BucketRec /\ o.admitted \in Seq(AdmittedRec) /\ o.admitted[i] \in AdmittedRec
    BY DEF OutRec
<1>2. /\ o.bucket.tokens <= o.bucket.rate /\ o.bucket.last <= ts
      /\ o.bucket.last # 0 => o.bucket.last >= TicksPerSec
    BY <1>1 DEF RateInv, BucketRec
<1>3. PICK rate \in Nat, tokens \in Nat, last \in Nat, k \in Nat, c \in Nat :
          /\ rate = o.bucket.rate /\ tokens = o.bucket.tokens /\ last = o.bucket.last
          /\ k = TicksPerSec /\ c = Refill(o.bucket, ts)
    BY <1>1, <1>2, RefillFacts, Sizes, Zenon DEF BucketRec
<1>4. Within(c - tokens, rate, ts - last)
    BY <1>1, <1>2, <1>3, RefillFacts, Zenon
<1>5. Bits(o.admitted) \in Nat
    BY <1>1, AdmittedFacts, Zenon
<1>6. PICK u \in Int, s \in Nat : u = Bits(o.admitted) - o.admitted[i].before /\ s = o.admitted[i].ts
  <2>1. o.admitted[i].ts \in Nat /\ o.admitted[i].before \in Nat
    BY <1>1, Zenon DEF AdmittedRec
  <2>2. QED
    BY <1>5, <2>1
<1>7. Within(u + tokens, rate, k + last - s)
    BY <1>3, <1>6, Zenon DEF RateInv
<1>8. u + tokens \in Int /\ c - tokens \in Int /\ rate \in Int /\ k + last - s \in Int /\ ts - last \in Int
    OBVIOUS
<1>9. Within((u + tokens) + (c - tokens), rate, (k + last - s) + (ts - last))
    BY <1>4, <1>7, <1>8, WithinAdds, Zenon
<1>10. (u + tokens) + (c - tokens) = u + c /\ (k + last - s) + (ts - last) = k + ts - s
    OBVIOUS
<1>11. Within(u + c, rate, k + ts - s)
    BY <1>9, <1>10, Zenon
<1>12. QED
    BY <1>3, <1>6, <1>11, Zenon

(***************************************************************************)
(* A packet the bucket has no tokens for.                                  *)
(***************************************************************************)
LEMMA SpentFacts ==
    ASSUME NEW o \in OutRec, NEW t \in Nat, RateInv(o, t), NEW ts \in Nat, t <= ts, ts >= TicksPerSec,
           NEW len \in Nat, ~Consume(o.bucket, len, ts).ok, NEW q, q = Spent(o, len, ts)
    PROVE  SameButRate(o, q) /\ RateInv(q, ts)
<1>1. o.bucket \in BucketRec /\ o.admitted \in Seq(AdmittedRec)
    BY Zenon DEF OutRec
<1>2. /\ o.bucket.tokens <= o.bucket.rate /\ o.bucket.last <= ts
      /\ o.bucket.last # 0 => o.bucket.last >= TicksPerSec
    BY <1>1 DEF RateInv, BucketRec
<1>3. PICK c : c = Consume(o.bucket, len, ts)
    BY Zenon
<1>4. /\ c.bucket \in BucketRec /\ c.bucket.rate = o.bucket.rate /\ c.bucket.last = ts
      /\ c.bucket.tokens = Refill(o.bucket, ts) /\ c.bucket.tokens <= o.bucket.rate
    BY <1>1, <1>2, <1>3, ConsumeFacts
<1>5. q = [o EXCEPT !.bucket = c.bucket]
    BY <1>3, Zenon DEF Spent
<1>6. SameButRate(o, q) /\ q.bucket = c.bucket /\ q.admitted = o.admitted
    BY <1>4, <1>5, Zenon DEF OutRec, SameButRate, SameSetup, SameCounts, SameBatch, SameFiles
<1>7. q.bucket.tokens <= q.bucket.rate /\ q.bucket.last = ts /\ ts # 0
    BY <1>4, <1>6, Sizes
<1>8. ASSUME NEW i \in DOMAIN q.admitted
      PROVE  /\ q.admitted[i].ts <= q.bucket.last
             /\ Within(Bits(q.admitted) - q.admitted[i].before + q.bucket.tokens, q.bucket.rate,
                       TicksPerSec + q.bucket.last - q.admitted[i].ts)
  <2>1. i \in DOMAIN o.admitted /\ o.admitted[i].ts \in Nat /\ o.bucket.last \in Nat
    BY <1>1, <1>6, AdmittedFacts, Zenon DEF BucketRec
  <2>2. o.admitted[i].ts <= ts
    BY <1>2, <2>1 DEF RateInv
  <2>3. Within(Bits(o.admitted) - o.admitted[i].before + Refill(o.bucket, ts), o.bucket.rate,
                  TicksPerSec + ts - o.admitted[i].ts)
    BY <2>1, RefillKeepsWithin, Zenon
  <2>4. QED
    BY <1>4, <1>6, <2>2, <2>3, Zenon
<1>9. \A i, j \in DOMAIN q.admitted : i <= j =>
           Within(q.admitted[j].upto - q.admitted[i].before, q.bucket.rate,
                  TicksPerSec + q.admitted[j].ts - q.admitted[i].ts)
    BY <1>4, <1>6, Zenon DEF RateInv
<1>10. RateInv(q, ts)
    BY <1>7, <1>8, <1>9 DEF RateInv
<1>11. QED
    BY <1>6, <1>10, Zenon

(***************************************************************************)
(* A packet that is let through.                                           *)
(***************************************************************************)
LEMMA PassedFacts ==
    ASSUME NEW o \in OutRec, NEW t \in Nat, RateInv(o, t), NEW ts \in Nat, t <= ts, ts >= TicksPerSec,
           NEW len \in Nat, Consume(o.bucket, len, ts).ok, NEW q, q = Passed(o, len, ts)
    PROVE  SameButRate(o, q) /\ RateInv(q, ts)
<1>1. o.bucket \in BucketRec /\ o.admitted \in Seq(AdmittedRec)
    BY Zenon DEF OutRec
<1>2. /\ o.bucket.tokens <= o.bucket.rate /\ o.bucket.last <= ts
      /\ o.bucket.last # 0 => o.bucket.last >= TicksPerSec
    BY <1>1 DEF RateInv, BucketRec
<1>3. PICK c : c = Consume(o.bucket, len, ts)
    BY Zenon
<1>4. /\ c.bucket \in BucketRec /\ c.bucket.rate = o.bucket.rate /\ c.bucket.last = ts
      /\ c.bucket.tokens = Refill(o.bucket, ts) - 8 * len /\ c.bucket.tokens <= o.bucket.rate
    BY <1>1, <1>2, <1>3, ConsumeFacts
<1>5. PICK old \in Nat, m \in Nat, bits \in Nat, rate \in Nat, tokens \in Nat, full \in Nat, k \in Nat :
          /\ old = Bits(o.admitted) /\ m = Len(o.admitted) /\ bits = 8 * len
          /\ rate = o.bucket.rate /\ tokens = c.bucket.tokens
          /\ full = Refill(o.bucket, ts) /\ k = TicksPerSec
  <2>1. Bits(o.admitted) \in Nat /\ Len(o.admitted) \in Nat
    BY <1>1, AdmittedFacts, Zenon
  <2>2. Refill(o.bucket, ts) \in Nat
    BY <1>1, <1>2, RefillFacts, Zenon
  <2>3. 8 * len \in Nat /\ o.bucket.rate \in Nat /\ c.bucket.tokens \in Nat /\ TicksPerSec \in Nat
    BY <1>1, <1>4, Sizes DEF BucketRec
  <2>4. QED
    BY <2>1, <2>2, <2>3, Zenon
<1>6. tokens = full - bits /\ full <= rate
    BY <1>1, <1>2, <1>4, <1>5, RefillFacts, Zenon
<1>7. PICK a : a = [ts |-> ts, before |-> old, upto |-> old + bits]
    BY Zenon
<1>8. PICK adm : adm = Append(o.admitted, a)
    BY Zenon
<1>9. a \in AdmittedRec /\ a.ts = ts /\ a.before = old /\ a.upto = old + bits
    BY <1>7 DEF AdmittedRec
<1>10. /\ adm \in Seq(AdmittedRec) /\ DOMAIN adm = 1 .. m + 1 /\ Len(adm) = m + 1 /\ adm # <<>>
       /\ DOMAIN o.admitted = 1 .. m
       /\ \A i \in 1 .. m : adm[i] = o.admitted[i]
       /\ adm[m + 1] = a
  <2>1. m = Len(o.admitted)
    BY <1>5, Zenon
  <2>2. /\ adm \in Seq(AdmittedRec) /\ Len(adm) = Len(o.admitted) + 1
        /\ DOMAIN adm = 1 .. Len(o.admitted) + 1 /\ adm # <<>>
        /\ DOMAIN o.admitted = 1 .. Len(o.admitted)
        /\ \A i \in 1 .. Len(o.admitted) : adm[i] = o.admitted[i]
        /\ adm[Len(o.admitted) + 1] = a
    BY <1>1, <1>8, <1>9, AppendFacts
  <2>3. QED
    BY <2>1, <2>2, Zenon
<1>10a. adm[m + 1] = a
    BY <1>10, Zenon
<1>11. Bits(adm) = old + bits
    BY <1>9, <1>10, <1>10a, Zenon DEF Bits
<1>12. q = [o EXCEPT !.bucket = c.bucket, !.admitted = adm]
  <2>1. Spent(o, len, ts) = [o EXCEPT !.bucket = c.bucket]
    BY <1>3, Zenon DEF Spent
  <2>2. Admitted(o.admitted, ts, 8 * len) = adm
    BY <1>5, <1>7, <1>8, Zenon DEF Admitted
  <2>3. q = [[o EXCEPT !.bucket = c.bucket] EXCEPT !.admitted = Admitted(o.admitted, ts, 8 * len)]
    BY <2>1, Zenon DEF Passed, OutRec
  <2>4. QED
    BY <2>2, <2>3, Zenon DEF OutRec
<1>13. SameButRate(o, q) /\ q.bucket = c.bucket /\ q.admitted = adm
    BY <1>4, <1>10, <1>12 DEF OutRec, SameButRate, SameSetup, SameCounts, SameBatch, SameFiles
<1>14. q.bucket.tokens <= q.bucket.rate /\ q.bucket.last = ts /\ ts # 0
    BY <1>4, <1>13, Sizes
<1>15. ASSUME NEW i \in 1 .. m
       PROVE  /\ adm[i].ts \in Nat /\ adm[i].before \in Nat /\ adm[i].upto \in Nat /\ adm[i].ts <= ts
              /\ Within(old + bits - adm[i].before + tokens, rate, k + ts - adm[i].ts)
  <2>1. i \in DOMAIN o.admitted /\ adm[i] = o.admitted[i] /\ o.bucket.last \in Nat
    BY <1>1, <1>10, Zenon DEF BucketRec
  <2>2. adm[i].ts \in Nat /\ adm[i].before \in Nat /\ adm[i].upto \in Nat
    BY <1>1, <2>1, AdmittedFacts, Zenon
  <2>3. adm[i].ts <= ts
    BY <1>2, <2>1, <2>2 DEF RateInv
  <2>4. Within(old - adm[i].before + full, rate, k + ts - adm[i].ts)
    BY <1>5, <2>1, RefillKeepsWithin, Zenon
  <2>5. old - adm[i].before + full = old + bits - adm[i].before + tokens
    BY <1>6, <2>2
  <2>6. QED
    BY <2>2, <2>3, <2>4, <2>5, Zenon
<1>16. Within(old + bits - old + tokens, rate, k + ts - ts)
  <2>1. old + bits - old + tokens = full /\ k + ts - ts = k
    BY <1>6
  <2>2. k * full <= rate * k
    BY <1>6
  <2>3. QED
    BY <1>5, <2>1, <2>2, Zenon DEF Within
<1>17. ASSUME NEW i \in 1 .. m + 1
       PROVE  /\ adm[i].ts \in Nat /\ adm[i].before \in Nat /\ adm[i].upto \in Nat /\ adm[i].ts <= ts
              /\ Within(old + bits - adm[i].before + tokens, rate, k + ts - adm[i].ts)
  <2>1. CASE i \in 1 .. m
    BY <1>15, <2>1, Zenon
  <2>2. CASE i = m + 1
    BY <1>9, <1>10a, <1>16, <2>2
  <2>3. QED
    BY <2>1, <2>2
<1>18. ASSUME NEW i \in 1 .. m + 1, NEW j \in 1 .. m + 1, i <= j
       PROVE  Within(adm[j].upto - adm[i].before, rate, k + adm[j].ts - adm[i].ts)
  <2>1. CASE j \in 1 .. m
    <3>1. i \in 1 .. m
      BY <1>18, <2>1
    <3>2. adm[i] = o.admitted[i] /\ adm[j] = o.admitted[j] /\ i \in DOMAIN o.admitted /\ j \in DOMAIN o.admitted
      BY <1>10, <2>1, <3>1, Zenon
    <3>3. QED
      BY <1>5, <1>18, <3>2, Zenon DEF RateInv
  <2>2. CASE j = m + 1
    <3>1. adm[j].upto = old + bits /\ adm[j].ts = ts
      BY <1>9, <1>10a, <2>2, Zenon
    <3>2. PICK u \in Int, v \in Int, d \in Int :
              /\ u = old + bits - adm[i].before + tokens
              /\ v = adm[j].upto - adm[i].before /\ d = k + adm[j].ts - adm[i].ts
      <4>1. adm[i].ts \in Nat /\ adm[i].before \in Nat
        BY <1>17, Zenon
      <4>2. /\ old + bits - adm[i].before + tokens \in Int
            /\ adm[j].upto - adm[i].before \in Int /\ k + adm[j].ts - adm[i].ts \in Int
        BY <3>1, <4>1
      <4>3. QED
        BY <4>2, Zenon
    <3>3. Within(u, rate, d) /\ v <= u
      BY <1>17, <3>1, <3>2
    <3>4. Within(v, rate, d)
      BY <3>3, WithinLess
    <3>5. QED
      BY <3>2, <3>4, Zenon
  <2>3. QED
    BY <2>1, <2>2
<1>19. RateInv(q, ts)
  <2>1. DOMAIN q.admitted = 1 .. m + 1
    BY <1>10, <1>13, Zenon
  <2>2. \A i \in DOMAIN q.admitted :
           /\ q.admitted[i].ts <= q.bucket.last
           /\ Within(Bits(q.admitted) - q.admitted[i].before + q.bucket.tokens, q.bucket.rate,
                     TicksPerSec + q.bucket.last - q.admitted[i].ts)
    <3>1. /\ q.bucket.last = ts /\ Bits(q.admitted) = old + bits /\ q.bucket.tokens = tokens
          /\ q.bucket.rate = rate /\ TicksPerSec = k /\ q.admitted = adm
      BY <1>4, <1>5, <1>11, <1>13, Zenon
    <3>2. \A i \in 1 .. m + 1 : adm[i].ts <= ts /\ Within(old + bits - adm[i].before + tokens, rate, k + ts - adm[i].ts)
      BY <1>17, Zenon
    <3>3. SUFFICES ASSUME NEW i \in DOMAIN q.admitted
                   PROVE  /\ q.admitted[i].ts <= q.bucket.last
                          /\ Within(Bits(q.admitted) - q.admitted[i].before + q.bucket.tokens,
                                    q.bucket.rate, TicksPerSec + q.bucket.last - q.admitted[i].ts)
      BY Zenon
    <3>4. adm[i].ts <= ts /\ Within(old + bits - adm[i].before + tokens, rate, k + ts - adm[i].ts)
      BY <2>1, <3>2, Zenon
    <3>5. q.admitted[i].ts <= q.bucket.last
      BY <3>1, <3>4, Zenon
    <3>6. Within(Bits(q.admitted) - q.admitted[i].before + q.bucket.tokens,
                                    q.bucket.rate, TicksPerSec + q.bucket.last - q.admitted[i].ts)
      <4>1. adm[i].ts \in Nat /\ adm[i].before \in Nat
        BY <1>17, <2>1, Zenon
      <4>2. /\ Bits(q.admitted) - q.admitted[i].before + q.bucket.tokens = old + bits - adm[i].before + tokens
            /\ TicksPerSec + q.bucket.last - q.admitted[i].ts = k + ts - adm[i].ts
        BY <3>1, <4>1
      <4>3. QED
        BY <3>1, <3>4, <4>2, Zenon
    <3>7. QED
      BY <3>5, <3>6, Zenon
  <2>3. \A i, j \in DOMAIN q.admitted : i <= j =>
           Within(q.admitted[j].upto - q.admitted[i].before, q.bucket.rate,
                  TicksPerSec + q.admitted[j].ts - q.admitted[i].ts)
    <3>1. q.bucket.rate = rate /\ TicksPerSec = k /\ q.admitted = adm
      BY <1>4, <1>5, <1>13, Zenon
    <3>2. QED
      BY <1>18, <2>1, <3>1, Zenon
  <2>4. QED
    BY <1>14, <2>2, <2>3 DEF RateInv
<1>20. QED
    BY <1>13, <1>19, Zenon


-----------------------------------------------------------------------------
(***************************************************************************)
(* A packet of an output: admitted or not, then counted once.              *)
(***************************************************************************)
Admits(o, r, ts) == SameButRate(o, r) /\ RateInv(r, ts)

Handled(o, q, n, ts) ==
    /\ q \in OutRec /\ SameSetup(o, q) /\ SameBatch(o, q)
    /\ CountsInv(q, n + 1) /\ RateInv(q, ts)

(***************************************************************************)
(* Time may pass.                                                          *)
(***************************************************************************)
LEMMA SelfAdmits ==
    ASSUME NEW o \in OutRec, NEW t \in Nat, RateInv(o, t), NEW ts \in Nat, t <= ts
    PROVE  Admits(o, o, ts)
<1>1. o.bucket.last \in Nat
    BY Zenon DEF OutRec, BucketRec
<1>2. RateInv(o, ts)
    BY <1>1 DEF RateInv
<1>3. QED
    BY <1>2, Zenon DEF Admits, SameButRate, SameSetup, SameCounts, SameBatch, SameFiles

(***************************************************************************)
(* The counters do not change with the bucket.                             *)
(***************************************************************************)
LEMMA CountsKept ==
    ASSUME NEW o, NEW r, SameCounts(o, r), r.batch = o.batch, NEW n, CountsInv(o, n)
    PROVE  CountsInv(r, n)
BY Zenon DEF SameCounts, CountsInv, DroppedBy, PacketsOf, BytesOf

(***************************************************************************)
(* A drop after the bucket.                                                *)
(***************************************************************************)
LEMMA DropHandled ==
    ASSUME NEW o \in OutRec, NEW n \in Nat, CountsInv(o, n), NEW ts \in Nat, NEW b \in Nat,
           NEW r, Admits(o, r, ts), NEW f \in Fates \ {"fwd", "heartbeat"}, NEW q, q = Count(r, f, 1, b)
    PROVE  Handled(o, q, n, ts) /\ SameFiles(o, q)
<1>1. r \in OutRec /\ SameSetup(o, r) /\ SameCounts(o, r) /\ SameBatch(o, r) /\ SameFiles(o, r) /\ RateInv(r, ts)
    BY Zenon DEF Admits, SameButRate
<1>2. CountsInv(r, n)
    BY <1>1, CountsKept, Zenon DEF SameBatch
<1>3. q \in OutRec /\ CountsInv(q, n + 1) /\ OthersSame(r, q)
    BY <1>1, <1>2, DropCounts, Zenon
<1>4. RateInv(q, ts)
    BY <1>1, <1>3, Zenon DEF OthersSame, SameRate, RateInv
<1>5. SameSetup(o, q) /\ SameBatch(o, q) /\ SameFiles(o, q)
    BY <1>1, <1>3, Zenon DEF OthersSame, SameSetup, SameBatch, SameFiles
<1>6. QED
    BY <1>3, <1>4, <1>5, Zenon DEF Handled

(***************************************************************************)
(* A packet sent after the bucket.                                         *)
(***************************************************************************)
LEMMA ForwardHandled ==
    ASSUME NEW o \in OutRec, NEW n \in Nat, CountsInv(o, n), NEW ts \in Nat, NEW b \in Nat,
           NEW r, Admits(o, r, ts), NEW q, q = Forward(r, b)
    PROVE  Handled(o, q, n, ts) /\ SameFiles(o, q)
<1>1. r \in OutRec /\ SameSetup(o, r) /\ SameCounts(o, r) /\ SameBatch(o, r) /\ SameFiles(o, r) /\ RateInv(r, ts)
    BY Zenon DEF Admits, SameButRate
<1>2. CountsInv(r, n)
    BY <1>1, CountsKept, Zenon DEF SameBatch
<1>3. q \in OutRec /\ CountsInv(q, n + 1) /\ OthersSame(r, q)
    BY <1>1, <1>2, ForwardCounts, Zenon
<1>4. RateInv(q, ts)
    BY <1>1, <1>3, Zenon DEF OthersSame, SameRate, RateInv
<1>5. SameSetup(o, q) /\ SameBatch(o, q) /\ SameFiles(o, q)
    BY <1>1, <1>3, Zenon DEF OthersSame, SameSetup, SameBatch, SameFiles
<1>6. QED
    BY <1>3, <1>4, <1>5, Zenon DEF Handled

(***************************************************************************)
(* The ways through the admission.                                         *)
(***************************************************************************)
Way(o, p, len, r) ==
    /\ Admits(o, r, p.ts)
    /\ p.dir = "unknown" => r = o
    /\ p.dir # "unknown" /\ o.bucket.rate > 0 /\ ~Consume(o.bucket, len, p.ts).ok => r = Spent(o, len, p.ts)
    /\ p.dir # "unknown" /\ o.bucket.rate > 0 /\ Consume(o.bucket, len, p.ts).ok => r = Passed(o, len, p.ts)
    /\ p.dir # "unknown" /\ ~(o.bucket.rate > 0) => r = o

(***************************************************************************)
(* One of them is taken.                                                   *)
(***************************************************************************)
LEMMA WayExists ==
    ASSUME NEW o \in OutRec, NEW t \in Nat, RateInv(o, t), NEW p, p.ts \in Nat, t <= p.ts,
           p.ts >= TicksPerSec, NEW len \in Nat
    PROVE  \E r : Way(o, p, len, r)
<1>1. PICK ts \in Nat : ts = p.ts /\ t <= ts /\ ts >= TicksPerSec
    BY Zenon
<1>2. CASE p.dir = "unknown" \/ ~(o.bucket.rate > 0)
  <2>1. Admits(o, o, ts)
    BY <1>1, SelfAdmits, Zenon
  <2>2. QED
    BY <1>1, <1>2, <2>1, Zenon DEF Way
<1>3. CASE p.dir # "unknown" /\ o.bucket.rate > 0 /\ ~Consume(o.bucket, len, p.ts).ok
  <2>1. PICK r : r = Spent(o, len, ts)
    BY Zenon
  <2>2. ~Consume(o.bucket, len, ts).ok
    BY <1>1, <1>3, Zenon
  <2>3. Admits(o, r, ts)
    BY <1>1, <2>1, <2>2, SpentFacts, Zenon DEF Admits
  <2>4. QED
    BY <1>1, <1>3, <2>1, <2>3, Zenon DEF Way
<1>4. CASE p.dir # "unknown" /\ o.bucket.rate > 0 /\ Consume(o.bucket, len, p.ts).ok
  <2>1. PICK r : r = Passed(o, len, ts)
    OBVIOUS
  <2>2. Consume(o.bucket, len, ts).ok
    BY <1>1, <1>4, Zenon
  <2>3. Admits(o, r, ts)
    BY <1>1, <2>1, <2>2, PassedFacts, Zenon DEF Admits
  <2>4. QED
    BY <1>1, <1>4, <2>1, <2>3, Zenon DEF Way
<1>5. QED
    BY <1>2, <1>3, <1>4, Zenon

(***************************************************************************)
(* The lengths.                                                            *)
(***************************************************************************)
LEMMA Lengths ==
    ASSUME NEW o \in OutRec, NEW p, p.caplen \in Nat
    PROVE  SlicedLen(o, p) \in Nat /\ FrameLen(o, p) \in Nat /\ FrameLen(o, p) <= MaxFrame
BY Sizes DEF SlicedLen, FrameLen, OutRec

(***************************************************************************)
(* The GRE output.                                                         *)
(***************************************************************************)
LEMMA GreHandled ==
    ASSUME NEW o \in OutRec, NEW n \in Nat, CountsInv(o, n), NEW t \in Nat, RateInv(o, t),
           NEW p, p.caplen \in Nat, p.ts \in Nat, t <= p.ts, p.ts >= TicksPerSec,
           NEW q \in GreSend(o, p)
    PROVE  Handled(o, q, n, p.ts) /\ SameFiles(o, q)
<1>1. PICK len \in Nat : len = FrameLen(o, p)
    BY Lengths, Zenon
<1>2. PICK r : Way(o, p, len, r)
    BY WayExists, Zenon
<1>3. \/ q = Forward(r, len)
      \/ \E f \in Fates \ {"fwd", "heartbeat"} : q = Count(r, f, 1, len)
  <2>1. CASE p.dir = "unknown"
    <3>1. q = Count(o, "direction_drop", 1, len)
      BY <1>1, <2>1, Zenon DEF GreSend, Admit, Nothing
    <3>2. QED
      BY <1>2, <2>1, <3>1, Zenon DEF Way, Fates
  <2>2. CASE p.dir # "unknown" /\ o.bucket.rate > 0 /\ ~Consume(o.bucket, len, p.ts).ok
    <3>1. q = Count(Spent(o, len, p.ts), "ratelimit_drop", 1, len)
      BY <1>1, <2>2, Zenon DEF GreSend, Admit, Nothing, Spent
    <3>2. QED
      BY <1>2, <2>2, <3>1, Zenon DEF Way, Fates
  <2>3. CASE p.dir # "unknown" /\ o.bucket.rate > 0 /\ Consume(o.bucket, len, p.ts).ok
    <3>1. q \in {Forward(Passed(o, len, p.ts), len), Count(Passed(o, len, p.ts), "error_drop", 1, len)}
      BY <1>1, <2>3, Zenon DEF GreSend, Admit, Spent, Passed
    <3>2. QED
      BY <1>2, <2>3, <3>1, Zenon DEF Way, Fates
  <2>4. CASE p.dir # "unknown" /\ ~(o.bucket.rate > 0)
    <3>1. q \in {Forward(o, len), Count(o, "error_drop", 1, len)}
      BY <1>1, <2>4, Zenon DEF GreSend, Admit
    <3>2. QED
      BY <1>2, <2>4, <3>1, Zenon DEF Way, Fates
  <2>5. QED
    BY <2>1, <2>2, <2>3, <2>4, Zenon
<1>4. Admits(o, r, p.ts)
    BY <1>2, Zenon DEF Way
<1>5. CASE q = Forward(r, len)
    BY <1>1, <1>4, <1>5, ForwardHandled, Zenon
<1>6. CASE \E f \in Fates \ {"fwd", "heartbeat"} : q = Count(r, f, 1, len)
    BY <1>1, <1>4, <1>6, DropHandled, Zenon
<1>7. QED
    BY <1>3, <1>5, <1>6, Zenon

(***************************************************************************)
(* The file output and the null output take every admitted packet.         *)
(***************************************************************************)
LEMMA TakeHandled ==
    ASSUME NEW o \in OutRec, NEW n \in Nat, CountsInv(o, n), NEW t \in Nat, RateInv(o, t),
           NEW p, p.caplen \in Nat, p.ts \in Nat, t <= p.ts, p.ts >= TicksPerSec,
           NEW q \in Take(o, p)
    PROVE  Handled(o, q, n, p.ts) /\ SameFiles(o, q)
<1>1. PICK len \in Nat : len = SlicedLen(o, p)
    BY Lengths, Zenon
<1>2. PICK r : Way(o, p, len, r)
    BY WayExists
<1>3. \/ q = Forward(r, len)
      \/ \E f \in Fates \ {"fwd", "heartbeat"} : q = Count(r, f, 1, len)
  <2>1. CASE p.dir = "unknown"
    <3>1. q = Count(o, "direction_drop", 1, len)
      BY <1>1, <2>1, Zenon DEF Take, Admit, Nothing
    <3>2. QED
      BY <1>2, <2>1, <3>1 DEF Way, Fates
  <2>2. CASE p.dir # "unknown" /\ o.bucket.rate > 0 /\ ~Consume(o.bucket, len, p.ts).ok
    <3>1. q = Count(Spent(o, len, p.ts), "ratelimit_drop", 1, len)
      BY <1>1, <2>2, Zenon DEF Take, Admit, Nothing, Spent
    <3>2. QED
      BY <1>2, <2>2, <3>1 DEF Way, Fates
  <2>3. CASE p.dir # "unknown" /\ o.bucket.rate > 0 /\ Consume(o.bucket, len, p.ts).ok
    <3>1. q = Forward(Passed(o, len, p.ts), len)
      BY <1>1, <2>3, Zenon DEF Take, Admit, Spent, Passed
    <3>2. QED
      BY <1>2, <2>3, <3>1, Zenon DEF Way
  <2>4. CASE p.dir # "unknown" /\ ~(o.bucket.rate > 0)
    <3>1. q = Forward(o, len)
      BY <1>1, <2>4, Zenon DEF Take, Admit
    <3>2. QED
      BY <1>2, <2>4, <3>1, Zenon DEF Way
  <2>5. QED
    BY <2>1, <2>2, <2>3, <2>4
<1>4. Admits(o, r, p.ts)
    BY <1>2 DEF Way
<1>5. CASE q = Forward(r, len)
    BY <1>1, <1>4, <1>5, ForwardHandled
<1>6. CASE \E f \in Fates \ {"fwd", "heartbeat"} : q = Count(r, f, 1, len)
    BY <1>1, <1>4, <1>6, DropHandled
<1>7. QED
    BY <1>3, <1>5, <1>6


-----------------------------------------------------------------------------
(***************************************************************************)
(* The rotating file: there is a dumper unless the last attempt to make a  *)
(* file failed, and fileTime is the time of that attempt.                  *)
(***************************************************************************)
Spaced(files) ==
    \A i \in DOMAIN files :
        /\ FileInterval > 0 => files[i].last - files[i].at < FileInterval
        /\ \A j \in DOMAIN files : i < j => files[j].at - files[i].at >= RetryInterval

FilesInv(o) ==
    /\ o.files = <<>> => ~o.dumper /\ ~o.dumperError
    /\ o.files # <<>> => (o.dumper <=> ~o.dumperError) /\ o.fileTime = o.files[Len(o.files)].at
    /\ Spaced(o.files)

SameButFiles(o, q) ==
    /\ q \in OutRec /\ SameSetup(o, q) /\ SameCounts(o, q) /\ SameBatch(o, q) /\ SameRate(o, q)

(***************************************************************************)
(* Files.                                                                  *)
(***************************************************************************)
LEMMA FileFacts ==
    ASSUME NEW s \in Seq(FileRec)
    PROVE  /\ Len(s) \in Nat /\ DOMAIN s = 1 .. Len(s)
           /\ \A i \in DOMAIN s : s[i].at \in Nat /\ s[i].last \in Nat
           /\ s # <<>> => Len(s) \in DOMAIN s
<1>1. Len(s) \in Nat /\ DOMAIN s = 1 .. Len(s) /\ \A i \in DOMAIN s : s[i] \in FileRec
    OBVIOUS
<1>2. \A i \in DOMAIN s : s[i].at \in Nat /\ s[i].last \in Nat
    BY <1>1, Zenon DEF FileRec
<1>3. ASSUME s # <<>> PROVE Len(s) \in DOMAIN s
  <2>1. Len(s) # 0
    BY <1>3
  <2>2. QED
    BY <1>1, <2>1
<1>4. QED
    BY <1>1, <1>2, <1>3, Zenon

(***************************************************************************)
(* Distances that follow one another.                                      *)
(***************************************************************************)
LEMMA FartherApart ==
    ASSUME NEW a \in Nat, NEW b \in Nat, NEW c \in Nat, NEW d \in Nat, a - b >= d, b - c >= d
    PROVE  a - c >= d
OBVIOUS

(***************************************************************************)
(* A new file is an interval away from every earlier one.                  *)
(***************************************************************************)
Opens(s, a, r) == r = Append(s, [at |-> a, last |-> a])

MayOpen(s, a) == s # <<>> => a - s[Len(s)].at >= RetryInterval

LEMMA SpacedAppend ==
    ASSUME NEW s \in Seq(FileRec), Spaced(s), NEW a \in Nat, NEW r, Opens(s, a, r), MayOpen(s, a)
    PROVE  r \in Seq(FileRec) /\ Spaced(r) /\ r # <<>> /\ r[Len(r)].at = a
<1>1. PICK e : e = [at |-> a, last |-> a]
    BY Zenon
<1>2. e \in FileRec /\ e.at = a /\ e.last = a
    BY <1>1, Zenon DEF FileRec
<1>3. /\ r \in Seq(FileRec) /\ Len(r) = Len(s) + 1 /\ DOMAIN r = 1 .. Len(s) + 1 /\ r # <<>>
      /\ DOMAIN s = 1 .. Len(s) /\ Len(s) \in Nat
      /\ \A i \in 1 .. Len(s) : r[i] = s[i]
      /\ r[Len(s) + 1] = e
  <2>1. r = Append(s, e)
    BY <1>1, Zenon DEF Opens
  <2>2. QED
    BY <1>2, <2>1, AppendFacts
<1>4. PICK m \in Nat : m = Len(s)
    BY <1>3, Zenon
<1>5. RetryInterval \in Nat /\ FileInterval \in Nat
    BY Sizes, Zenon DEF RetryInterval
<1>6. ASSUME NEW i \in 1 .. m PROVE a - s[i].at >= RetryInterval
  <2>1. i \in DOMAIN s /\ m \in DOMAIN s /\ s # <<>>
    BY <1>3, <1>4
  <2>2. s[i].at \in Nat /\ s[m].at \in Nat
    BY <2>1, FileFacts, Zenon
  <2>3. a - s[m].at >= RetryInterval
    BY <1>4, <2>1, Zenon DEF MayOpen
  <2>4. CASE i = m
    BY <2>3, <2>4, Zenon
  <2>5. CASE i < m
    <3>1. s[m].at - s[i].at >= RetryInterval
      BY <2>1, <2>5, Zenon DEF Spaced
    <3>2. PICK b \in Nat, c \in Nat, d \in Nat : b = s[m].at /\ c = s[i].at /\ d = RetryInterval
      BY <1>5, <2>2, Zenon
    <3>3. a - b >= d /\ b - c >= d
      BY <2>3, <3>1, <3>2, Zenon
    <3>4. a - c >= d
      BY <3>2, <3>3, FartherApart, Zenon
    <3>5. QED
      BY <3>2, <3>4, Zenon
  <2>6. QED
    BY <2>4, <2>5
<1>7. ASSUME NEW i \in 1 .. m + 1 PROVE FileInterval > 0 => r[i].last - r[i].at < FileInterval
  <2>1. CASE i \in 1 .. m
    BY <1>3, <1>4, <2>1, Zenon DEF Spaced
  <2>2. CASE i = m + 1
    BY <1>2, <1>3, <1>4, <1>5, <2>2
  <2>3. QED
    BY <1>4, <2>1, <2>2
<1>8. ASSUME NEW i \in 1 .. m + 1, NEW j \in 1 .. m + 1, i < j
      PROVE  r[j].at - r[i].at >= RetryInterval
  <2>1. i \in 1 .. m /\ r[i] = s[i] /\ i \in DOMAIN s
    BY <1>3, <1>4, <1>8
  <2>2. CASE j \in 1 .. m
    <3>1. r[j] = s[j] /\ j \in DOMAIN s
      BY <1>3, <1>4, <2>2, Zenon
    <3>2. QED
      BY <1>8, <2>1, <3>1, Zenon DEF Spaced
  <2>3. CASE j = m + 1
    BY <1>2, <1>3, <1>4, <1>6, <2>1, <2>3, Zenon
  <2>4. QED
    BY <1>4, <2>2, <2>3
<1>9. DOMAIN r = 1 .. m + 1
    BY <1>3, <1>4, Zenon
<1>10. Spaced(r)
    BY <1>7, <1>8, <1>9, Zenon DEF Spaced
<1>11. QED
    BY <1>2, <1>3, <1>10, Zenon

(***************************************************************************)
(* The last packet of the file.                                            *)
(***************************************************************************)
LEMMA SpacedMark ==
    ASSUME NEW s \in Seq(FileRec), Spaced(s), NEW a \in Nat, s # <<>>, NEW r,
           r = [s EXCEPT ![Len(s)].last = a],
           FileInterval > 0 => a - s[Len(s)].at < FileInterval
    PROVE  r \in Seq(FileRec) /\ Spaced(r) /\ r # <<>> /\ Len(r) = Len(s) /\ r[Len(r)].at = s[Len(s)].at
<1>1. PICK m \in Nat : m = Len(s)
    BY FileFacts, Zenon
<1>2. m \in DOMAIN s /\ DOMAIN s = 1 .. m
    BY <1>1, FileFacts, Zenon
<1>3. PICK e : e = [s[m] EXCEPT !.last = a]
    BY Zenon
<1>4. s[m] \in FileRec
    BY <1>2
<1>5. e \in FileRec /\ e.at = s[m].at /\ e.last = a
    BY <1>3, <1>4, Zenon DEF FileRec
<1>6. r = [s EXCEPT ![m] = e]
    BY <1>1, <1>3, Zenon
<1>7. r \in Seq(FileRec) /\ Len(r) = m /\ DOMAIN r = 1 .. m
    BY <1>1, <1>2, <1>5, <1>6
<1>8. r[m] = e /\ \A i \in 1 .. m : i # m => r[i] = s[i]
    BY <1>2, <1>6, Zenon
<1>9. \A i \in 1 .. m : r[i].at = s[i].at
    BY <1>5, <1>8, Zenon
<1>10. \A i \in 1 .. m : FileInterval > 0 => r[i].last - r[i].at < FileInterval
    BY <1>1, <1>2, <1>5, <1>8, Zenon DEF Spaced
<1>11. \A i, j \in 1 .. m : i < j => r[j].at - r[i].at >= RetryInterval
    BY <1>2, <1>9, Zenon DEF Spaced
<1>12. Spaced(r)
    BY <1>7, <1>10, <1>11 DEF Spaced
<1>13. r # <<>>
    BY <1>2, <1>7
<1>14. QED
    BY <1>1, <1>5, <1>7, <1>8, <1>12, <1>13, Zenon

(***************************************************************************)
(* create_dumper is only called when an interval has passed.               *)
(***************************************************************************)
LEMMA CreateDumperFacts ==
    ASSUME NEW o \in OutRec, FilesInv(o), NEW m \in Nat, ~RetryLater(o, m),
           ~o.dumper \/ RotationDue(o, m), NEW q \in CreateDumper(o, m)
    PROVE  SameButFiles(o, q) /\ FilesInv(q) /\ q.files # <<>> /\ q.fileTime = Sec(m)
<1>1. PICK a \in Nat : a = Sec(m)
    BY SecFacts, Zenon
<1>2. o.files \in Seq(FileRec) /\ o.fileTime \in Nat
    BY Zenon DEF OutRec
<1>3. RetryInterval \in Nat /\ FileInterval \in Nat
    BY Sizes, Zenon DEF RetryInterval
<1>4. ASSUME o.files # <<>> PROVE a - o.files[Len(o.files)].at >= RetryInterval
  <2>1. (o.dumper <=> ~o.dumperError) /\ o.fileTime = o.files[Len(o.files)].at
    BY <1>4, Zenon DEF FilesInv
  <2>2. CASE ~o.dumper
    <3>1. o.dumperError
      BY <2>1, <2>2, Zenon
    <3>2. ~(a - o.fileTime < RetryInterval)
      BY <1>1, <3>1, Zenon DEF RetryLater
    <3>3. QED
      BY <1>2, <1>3, <2>1, <3>2
  <2>3. CASE RotationDue(o, m)
    BY <1>1, <1>2, <1>3, <2>1, <2>3, Zenon DEF RotationDue, RetryInterval
  <2>4. QED
    BY <2>2, <2>3, Zenon
<1>5. PICK s : s = Append(o.files, [at |-> a, last |-> a])
    BY Zenon
<1>6. Spaced(o.files)
    BY Zenon DEF FilesInv
<1>7. s \in Seq(FileRec) /\ Spaced(s) /\ s # <<>> /\ s[Len(s)].at = a
  <2>1. PICK f \in Seq(FileRec) : f = o.files
    BY <1>2, Zenon
  <2>2. Spaced(f) /\ Opens(f, a, s)
    BY <1>5, <1>6, <2>1, Zenon DEF Opens
  <2>3. MayOpen(f, a)
    BY <1>4, <2>1, Zenon DEF MayOpen
  <2>4. QED
    BY <1>1, <2>1, <2>2, <2>3, SpacedAppend, Zenon
<1>8. PICK ok \in BOOLEAN :
          q = [o EXCEPT !.fileTime = a, !.dumper = ok, !.dumperError = ~ok, !.files = s]
    BY <1>1, <1>5, Zenon DEF CreateDumper
<1>9. /\ SameButFiles(o, q) /\ q.files = s /\ q.fileTime = a
      /\ q.dumper = ok /\ q.dumperError = ~ok
    BY <1>7, <1>8, Zenon DEF OutRec, SameButFiles, SameSetup, SameCounts, SameBatch, SameRate
<1>10. FilesInv(q)
    BY <1>7, <1>9, Zenon DEF FilesInv
<1>11. QED
    BY <1>1, <1>7, <1>9, <1>10, Zenon

(***************************************************************************)
(* A packet is written to the file of its interval.                        *)
(***************************************************************************)
Mark(o, m) == [o EXCEPT !.files[Len(o.files)].last = Sec(m)]

LEMMA MarkFacts ==
    ASSUME NEW o \in OutRec, FilesInv(o), NEW m \in Nat, o.files # <<>>, ~RotationDue(o, m),
           NEW q, q = Mark(o, m)
    PROVE  SameButFiles(o, q) /\ FilesInv(q)
<1>1. PICK a \in Nat : a = Sec(m)
    BY SecFacts, Zenon
<1>2. o.files \in Seq(FileRec) /\ o.fileTime \in Nat /\ FileInterval \in Nat
    BY Sizes, Zenon DEF OutRec
<1>3. Spaced(o.files) /\ (o.dumper <=> ~o.dumperError) /\ o.fileTime = o.files[Len(o.files)].at
    BY Zenon DEF FilesInv
<1>4. FileInterval > 0 => a - o.files[Len(o.files)].at < FileInterval
    BY <1>1, <1>2, <1>3 DEF RotationDue
<1>5. PICK s : s = [o.files EXCEPT ![Len(o.files)].last = a]
    BY Zenon
<1>6. s \in Seq(FileRec) /\ Spaced(s) /\ s # <<>> /\ Len(s) = Len(o.files) /\ s[Len(s)].at = o.fileTime
    BY <1>2, <1>3, <1>4, <1>5, SpacedMark
<1>7. q = [o EXCEPT !.files = s]
    BY <1>1, <1>5, Zenon DEF Mark
<1>8. /\ SameButFiles(o, q) /\ q.files = s /\ q.fileTime = o.fileTime
      /\ q.dumper = o.dumper /\ q.dumperError = o.dumperError
    BY <1>6, <1>7, Zenon DEF OutRec, SameButFiles, SameSetup, SameCounts, SameBatch, SameRate
<1>9. FilesInv(q)
    BY <1>3, <1>6, <1>8, Zenon DEF FilesInv
<1>10. QED
    BY <1>8, <1>9, Zenon


(***************************************************************************)
(* The rotating file output.                                               *)
(***************************************************************************)
LEMMA RotatingHandled ==
    ASSUME NEW o \in OutRec, NEW n \in Nat, CountsInv(o, n), NEW t \in Nat, RateInv(o, t), FilesInv(o),
           NEW p, p.caplen \in Nat, p.ts \in Nat, t <= p.ts, p.ts >= TicksPerSec, NEW m \in Nat,
           NEW q \in RotatingWrite(o, p, m)
    PROVE  Handled(o, q, n, p.ts) /\ FilesInv(q)
<1>1. PICK len \in Nat : len = SlicedLen(o, p)
    BY Lengths, Zenon
<1>2. PICK r : Way(o, p, len, r)
    BY WayExists, Zenon
<1> DEFINE Failed(c) == Count(c, "error_drop", 1, len)
           Written(c) ==
             CASE RetryLater(c, m) -> {Failed(c)}
               [] ~RetryLater(c, m) /\ (~c.dumper \/ RotationDue(c, m)) ->
                      {IF f.dumper THEN Dump(f, len, m) ELSE Failed(f) : f \in CreateDumper(c, m)}
               [] OTHER -> {Dump(c, len, m)}
<1>3. \/ \E f \in Fates \ {"fwd", "heartbeat"} : q = Count(r, f, 1, len)
      \/ q \in Written(r)
  <2>1. CASE p.dir = "unknown"
    <3>1. q = Count(o, "direction_drop", 1, len)
      BY <1>1, <2>1, Zenon DEF RotatingWrite, Admit, Nothing
    <3>2. QED
      BY <1>2, <2>1, <3>1, Zenon DEF Way, Fates
  <2>2. CASE p.dir # "unknown" /\ o.bucket.rate > 0 /\ ~Consume(o.bucket, len, p.ts).ok
    <3>1. q = Count(Spent(o, len, p.ts), "ratelimit_drop", 1, len)
      BY <1>1, <2>2, Zenon DEF RotatingWrite, Admit, Nothing, Spent
    <3>2. QED
      BY <1>2, <2>2, <3>1, Zenon DEF Way, Fates
  <2>3. CASE p.dir # "unknown" /\ o.bucket.rate > 0 /\ Consume(o.bucket, len, p.ts).ok
    <3>1. q \in Written(Passed(o, len, p.ts))
      BY <1>1, <2>3, Zenon DEF RotatingWrite, Admit, Spent, Passed
    <3>2. r = Passed(o, len, p.ts)
      BY <1>2, <2>3, Zenon DEF Way
    <3> HIDE DEF Written
    <3>3. QED
      BY <3>1, <3>2, Zenon
  <2>4. CASE p.dir # "unknown" /\ ~(o.bucket.rate > 0)
    <3>1. q \in Written(o)
      BY <1>1, <2>4, Zenon DEF RotatingWrite, Admit
    <3>2. r = o
      BY <1>2, <2>4, Zenon DEF Way
    <3> HIDE DEF Written
    <3>3. QED
      BY <3>1, <3>2, Zenon
  <2>5. QED
    BY <2>1, <2>2, <2>3, <2>4, Zenon
<1>4. Admits(o, r, p.ts) /\ r \in OutRec /\ SameFiles(o, r)
    BY <1>2, Zenon DEF Way, Admits, SameButRate
<1>5. FilesInv(r)
    BY <1>4, Zenon DEF SameFiles, FilesInv
<1>6. CASE \E f \in Fates \ {"fwd", "heartbeat"} : q = Count(r, f, 1, len)
  <2>1. Handled(o, q, n, p.ts) /\ SameFiles(o, q)
    BY <1>1, <1>4, <1>6, DropHandled, Zenon
  <2>2. QED
    BY <2>1, Zenon DEF SameFiles, FilesInv
<1>7. ASSUME NEW d, SameButFiles(r, d), FilesInv(d), q = Forward(d, len) \/ q = Failed(d)
      PROVE  Handled(o, q, n, p.ts) /\ FilesInv(q)
  <2>1. /\ d \in OutRec /\ SameSetup(o, d) /\ SameCounts(o, d) /\ SameBatch(o, d)
        /\ RateInv(d, p.ts) /\ CountsInv(d, n)
    <3>1. d \in OutRec /\ SameSetup(o, d) /\ SameCounts(o, d) /\ SameBatch(o, d)
      BY <1>4, <1>7, Zenon DEF SameButFiles, Admits, SameButRate, SameSetup, SameCounts, SameBatch
    <3>2. RateInv(d, p.ts)
      BY <1>4, <1>7, Zenon DEF SameButFiles, SameRate, Admits, RateInv
    <3>3. CountsInv(d, n)
      BY <3>1, CountsKept, Zenon DEF SameBatch
    <3>4. QED
      BY <3>1, <3>2, <3>3, Zenon
  <2>2. q \in OutRec /\ CountsInv(q, n + 1) /\ OthersSame(d, q)
    <3>1. CASE q = Forward(d, len)
      BY <1>1, <2>1, <3>1, ForwardCounts, Zenon
    <3>2. CASE q = Failed(d)
      <4>1. "error_drop" \in Fates \ {"fwd", "heartbeat"}
        BY Zenon DEF Fates
      <4>2. QED
        BY <1>1, <2>1, <3>2, <4>1, DropCounts, Zenon
    <3>3. QED
      BY <1>7, <3>1, <3>2, Zenon
  <2>3. RateInv(q, p.ts)
    BY <2>1, <2>2, Zenon DEF OthersSame, SameRate, RateInv
  <2>4. FilesInv(q)
    BY <1>7, <2>2, Zenon DEF OthersSame, SameFiles, FilesInv
  <2>5. SameSetup(o, q) /\ SameBatch(o, q)
    BY <2>1, <2>2, Zenon DEF OthersSame, SameSetup, SameBatch
  <2>6. QED
    BY <2>2, <2>3, <2>4, <2>5, Zenon DEF Handled
<1>8. CASE q \in Written(r)
  <2>1. CASE RetryLater(r, m)
    <3>1. q = Failed(r)
      BY <1>8, <2>1, Zenon
    <3>2. SameButFiles(r, r)
      BY <1>4, Zenon DEF SameButFiles, SameSetup, SameCounts, SameBatch, SameRate
    <3> HIDE DEF Failed
    <3>3. QED
      BY <1>5, <1>7, <3>1, <3>2, Zenon
  <2>2. CASE ~RetryLater(r, m) /\ (~r.dumper \/ RotationDue(r, m))
    <3>1. PICK f \in CreateDumper(r, m) : q = IF f.dumper THEN Dump(f, len, m) ELSE Failed(f)
      BY <1>8, <2>2, Zenon
    <3>2. SameButFiles(r, f) /\ FilesInv(f) /\ f.files # <<>> /\ f.fileTime = Sec(m) /\ f \in OutRec
      BY <1>4, <1>5, <2>2, <3>1, CreateDumperFacts, Zenon DEF SameButFiles
    <3>3. CASE ~f.dumper
      <4> HIDE DEF Failed
      <4>1. q = Failed(f)
        BY <3>1, <3>3, Zenon
      <4>2. QED
        BY <1>7, <3>2, <4>1, Zenon
    <3>4. CASE f.dumper
      <4>1. PICK d : d = Mark(f, m)
        BY Zenon
      <4>2. ~RotationDue(f, m)
        BY <3>2, SecFacts, Sizes DEF RotationDue
      <4>3. SameButFiles(f, d) /\ FilesInv(d)
        BY <3>2, <4>1, <4>2, MarkFacts, Zenon
      <4>4. SameButFiles(r, d)
        BY <3>2, <4>3, Zenon DEF SameButFiles, SameSetup, SameCounts, SameBatch, SameRate
      <4>5. q = Forward(d, len)
        BY <3>1, <3>4, <4>1, Zenon DEF Dump, Mark
      <4> HIDE DEF Failed
      <4>6. QED
        BY <1>7, <4>3, <4>4, <4>5, Zenon
    <3>5. QED
      BY <3>3, <3>4, Zenon
  <2>3. CASE ~RetryLater(r, m) /\ ~(~r.dumper \/ RotationDue(r, m))
    <3>1. q = Dump(r, len, m)
      BY <1>8, <2>3, Zenon
    <3>2. r.files # <<>>
      BY <1>5, <2>3, Zenon DEF FilesInv
    <3>3. PICK d : d = Mark(r, m)
      BY Zenon
    <3>4. SameButFiles(r, d) /\ FilesInv(d)
      BY <1>4, <1>5, <2>3, <3>2, <3>3, MarkFacts, Zenon
    <3>5. q = Forward(d, len)
      BY <3>1, <3>3, Zenon DEF Dump, Mark
    <3> HIDE DEF Failed
    <3>6. QED
      BY <1>7, <3>4, <3>5, Zenon
  <2>4. QED
    BY <2>1, <2>2, <2>3, Zenon
<1>9. QED
    BY <1>3, <1>6, <1>8, Zenon


-----------------------------------------------------------------------------
(***************************************************************************)
(* The batch of the ZMQ output.  A batch that is pending has the time of   *)
(* its first packet, and it is not old at t, the last time a poll reached  *)
(* the output; when nothing is pending, the last batch left after the last *)
(* packet came.                                                            *)
(***************************************************************************)
BatchInv(o) ==
    /\ o.batch.pos \in BatchHdr .. MaxBatch
    /\ o.batch.num <= MaxNum
    /\ o.kind # "zmq" \/ ~o.open => o.batch.num = 0

TimeInv(o, t, m) ==
    /\ o.batch.num > 0 => o.batch.first # 0 /\ Sec(t) <= o.batch.first + FlushDur
    /\ o.batch.num = 0 => o.lastPkt <= o.heard
    /\ o.lastPkt <= m /\ o.heard <= m

SameButBatch(o, q) ==
    /\ q \in OutRec /\ SameSetup(o, q) /\ SameRate(o, q) /\ SameFiles(o, q)

(***************************************************************************)
(* The empty batch.                                                        *)
(***************************************************************************)
LEMMA EmptyFacts ==
    /\ EmptyBatch \in BatchRec /\ EmptyBatch.num = 0 /\ EmptyBatch.pos = BatchHdr
    /\ EmptyBatch.beats = 0 /\ EmptyBatch.bytes = 0
    /\ EmptyBatch.held.packets = 0 /\ EmptyBatch.held.heartbeats = 0 /\ EmptyBatch.held.bytes = 0
    /\ EmptyBatch.pos \in BatchHdr .. MaxBatch /\ EmptyBatch.num <= MaxNum
<1>1. /\ EmptyBatch.num = 0 /\ EmptyBatch.pos = BatchHdr
      /\ EmptyBatch.beats = 0 /\ EmptyBatch.bytes = 0
      /\ EmptyBatch.held.packets = 0 /\ EmptyBatch.held.heartbeats = 0 /\ EmptyBatch.held.bytes = 0
    BY Zenon DEF EmptyBatch
<1>2. EmptyBatch \in BatchRec
    BY Sizes, Zenon DEF EmptyBatch, BatchRec, HeldRec
<1>3. BatchHdr \in BatchHdr .. MaxBatch /\ 0 <= MaxNum
    BY Sizes, SizeAssumption
<1>4. QED
    BY <1>1, <1>2, <1>3, Zenon

(***************************************************************************)
(* zmq_flush_packet: the batch is counted as what it holds, forwarded or   *)
(* dropped, and emptied.                                                   *)
(***************************************************************************)
LEMMA FlushFacts ==
    ASSUME NEW o \in OutRec, NEW n \in Nat, CountsInv(o, n), NEW m \in Nat, NEW q \in Flush(o, m)
    PROVE  /\ SameButBatch(o, q) /\ CountsInv(q, n)
           /\ q.batch = EmptyBatch /\ q.heard = m /\ q.lastPkt = o.lastPkt
<1>1. PICK x \in Nat, y \in Nat, z \in Nat :
          /\ x = o.batch.held.packets /\ y = o.batch.held.heartbeats /\ z = o.batch.held.bytes
    BY CountsAreNat, Zenon
<1>2. o.batch.num - o.batch.beats = x /\ o.batch.beats = y /\ o.batch.bytes = z
    BY <1>1 DEF CountsInv
<1>3. /\ PacketsOf(o, "fwd") + DroppedBy(o) + x = n
      /\ PacketsOf(o, "fwd") = o.sink.packets
      /\ BytesOf(o, "fwd") = o.sink.bytes
      /\ PacketsOf(o, "heartbeat") = o.sink.heartbeats
    BY <1>2, Zenon DEF CountsInv
<1>4. /\ PacketsOf(o, "fwd") \in Nat /\ DroppedBy(o) \in Nat /\ BytesOf(o, "fwd") \in Nat
      /\ PacketsOf(o, "heartbeat") \in Nat /\ \A e \in Fates : PacketsOf(o, e) \in Nat
      /\ "fwd" \in Fates /\ "heartbeat" \in Fates /\ "error_drop" \in Fates
    BY CountsAreNat, Zenon DEF Fates
<1> DEFINE Emptied(c) == [c EXCEPT !.batch = EmptyBatch, !.heard = m]
<1>5. ASSUME NEW c \in OutRec, OthersSame(o, c), q = Emptied(c),
             PacketsOf(c, "fwd") + DroppedBy(c) = n, PacketsOf(c, "fwd") = c.sink.packets,
             BytesOf(c, "fwd") = c.sink.bytes, PacketsOf(c, "heartbeat") = c.sink.heartbeats
      PROVE  /\ SameButBatch(o, q) /\ CountsInv(q, n)
             /\ q.batch = EmptyBatch /\ q.heard = m /\ q.lastPkt = o.lastPkt
  <2>1. /\ q \in OutRec /\ SameSetup(c, q) /\ SameRate(c, q) /\ SameFiles(c, q) /\ SameCounts(c, q)
        /\ q.batch = EmptyBatch /\ q.heard = m /\ q.lastPkt = c.lastPkt
    BY <1>5, EmptyFacts, Zenon DEF OutRec, SameSetup, SameRate, SameFiles, SameCounts
  <2>2. SameButBatch(o, q) /\ q.lastPkt = o.lastPkt
    BY <1>5, <2>1, Zenon DEF SameButBatch, OthersSame, SameSetup, SameRate, SameFiles, SameBatch
  <2>3. /\ PacketsOf(q, "fwd") = PacketsOf(c, "fwd") /\ DroppedBy(q) = DroppedBy(c)
        /\ BytesOf(q, "fwd") = BytesOf(c, "fwd") /\ PacketsOf(q, "heartbeat") = PacketsOf(c, "heartbeat")
        /\ q.sink = c.sink
    BY <2>1, Zenon DEF SameCounts, PacketsOf, BytesOf, DroppedBy
  <2>4. /\ PacketsOf(q, "fwd") + DroppedBy(q) + (q.batch.num - q.batch.beats) = n
        /\ q.batch.num = q.batch.held.packets + q.batch.held.heartbeats
        /\ q.batch.beats = q.batch.held.heartbeats /\ q.batch.bytes = q.batch.held.bytes
    BY <1>5, <2>1, <2>3, EmptyFacts
  <2>5. CountsInv(q, n)
    BY <1>5, <2>3, <2>4, Zenon DEF CountsInv
  <2>6. QED
    BY <2>1, <2>2, <2>5, Zenon
<1>6. \/ q = Emptied(Sink(Count(Count(o, "fwd", x, z), "heartbeat", y, 0), x, z, y))
      \/ q = Emptied(Count(o, "error_drop", x, z))
    BY <1>1, <1>2, Zenon DEF Flush, FlushCounts
<1>7. CASE q = Emptied(Sink(Count(Count(o, "fwd", x, z), "heartbeat", y, 0), x, z, y))
  <2>1. PICK o1 : o1 = Count(o, "fwd", x, z)
    BY Zenon
  <2>2. Counted(o, o1, "fwd", x, z)
    BY <1>4, <2>1, CountFacts, Zenon
  <2>3. o1 \in OutRec
    BY <2>2, Zenon DEF Counted
  <2>4. PICK o2 : o2 = Count(o1, "heartbeat", y, 0)
    BY Zenon
  <2>5. Counted(o1, o2, "heartbeat", y, 0)
    BY <1>4, <2>3, <2>4, CountFacts, Zenon
  <2>6. o2 \in OutRec
    BY <2>5, Zenon DEF Counted
  <2>7. PICK o3 : o3 = Sink(o2, x, z, y)
    BY Zenon
  <2>8. Sent(o2, o3, x, z, y)
    BY <2>6, <2>7, SinkFacts, Zenon
  <2>9. o3 \in OutRec /\ OthersSame(o, o3)
    BY <2>2, <2>5, <2>8, Zenon DEF Counted, Sent, OthersSame, SameSetup, SameBatch, SameRate, SameFiles
  <2>10. \A e \in Fates : PacketsOf(o3, e) = PacketsOf(o2, e) /\ BytesOf(o3, e) = BytesOf(o2, e)
    BY <2>8, Zenon DEF Sent, PacketsOf, BytesOf
  <2>11. /\ PacketsOf(o3, "fwd") = PacketsOf(o, "fwd") + x
         /\ BytesOf(o3, "fwd") = BytesOf(o, "fwd") + z
         /\ PacketsOf(o3, "heartbeat") = PacketsOf(o, "heartbeat") + y
    BY <2>2, <2>5, <2>10, Zenon DEF Counted, Fates
  <2>12. DroppedBy(o3) = DroppedBy(o)
    BY <2>2, <2>5, <2>10, Zenon DEF Counted, Fates, DroppedBy
  <2>13. /\ o3.sink.packets = o.sink.packets + x /\ o3.sink.bytes = o.sink.bytes + z
         /\ o3.sink.heartbeats = o.sink.heartbeats + y
    BY <2>2, <2>5, <2>8, Zenon DEF Counted, Sent
  <2>14. /\ PacketsOf(o3, "fwd") + DroppedBy(o3) = n /\ PacketsOf(o3, "fwd") = o3.sink.packets
         /\ BytesOf(o3, "fwd") = o3.sink.bytes /\ PacketsOf(o3, "heartbeat") = o3.sink.heartbeats
    BY <1>3, <1>4, <2>11, <2>12, <2>13
  <2>15. q = Emptied(o3)
    BY <1>7, <2>1, <2>4, <2>7, Zenon
  <2> HIDE DEF Emptied
  <2>16. QED
    BY <1>5, <2>9, <2>14, <2>15, Zenon
<1>8. CASE q = Emptied(Count(o, "error_drop", x, z))
  <2>1. PICK o1 : o1 = Count(o, "error_drop", x, z)
    BY Zenon
  <2>2. Counted(o, o1, "error_drop", x, z)
    BY <1>4, <2>1, CountFacts, Zenon
  <2>3. o1 \in OutRec /\ OthersSame(o, o1) /\ o1.sink = o.sink
    BY <2>2, Zenon DEF Counted
  <2>4. /\ PacketsOf(o1, "fwd") = PacketsOf(o, "fwd") /\ BytesOf(o1, "fwd") = BytesOf(o, "fwd")
        /\ PacketsOf(o1, "heartbeat") = PacketsOf(o, "heartbeat")
    BY <2>2, Zenon DEF Counted, Fates
  <2>5. DroppedBy(o1) = DroppedBy(o) + x
    BY <1>4, <2>2 DEF Counted, Fates, DroppedBy
  <2>6. /\ PacketsOf(o1, "fwd") + DroppedBy(o1) = n /\ PacketsOf(o1, "fwd") = o1.sink.packets
        /\ BytesOf(o1, "fwd") = o1.sink.bytes /\ PacketsOf(o1, "heartbeat") = o1.sink.heartbeats
    BY <1>3, <1>4, <2>3, <2>4, <2>5
  <2>7. q = Emptied(o1)
    BY <1>8, <2>1, Zenon
  <2> HIDE DEF Emptied
  <2>8. QED
    BY <1>5, <2>3, <2>6, <2>7, Zenon
<1>9. QED
    BY <1>6, <1>7, <1>8, Zenon


(***************************************************************************)
(* A flush keeps the invariants of the batch and of its times.             *)
(***************************************************************************)
LEMMA FlushKeeps ==
    ASSUME NEW o \in OutRec, NEW n \in Nat, CountsInv(o, n), NEW m \in Nat, NEW t \in Nat,
           o.lastPkt <= m, NEW q \in Flush(o, m)
    PROVE  /\ SameButBatch(o, q) /\ CountsInv(q, n) /\ BatchInv(q) /\ TimeInv(q, t, m)
           /\ q.batch = EmptyBatch /\ q.heard = m /\ q.lastPkt = o.lastPkt
<1>1. /\ SameButBatch(o, q) /\ CountsInv(q, n)
      /\ q.batch = EmptyBatch /\ q.heard = m /\ q.lastPkt = o.lastPkt
    BY FlushFacts
<1>2. BatchInv(q)
    BY <1>1, EmptyFacts, Zenon DEF BatchInv
<1>3. TimeInv(q, t, m)
    BY <1>1, EmptyFacts DEF TimeInv
<1>4. QED
    BY <1>1, <1>2, <1>3, Zenon

(***************************************************************************)
(* zmq_flush_if_stale: no batch that is left is old.                       *)
(***************************************************************************)
LEMMA StaleFacts ==
    ASSUME NEW o \in OutRec, NEW n \in Nat, CountsInv(o, n), BatchInv(o), NEW m \in Nat, NEW t \in Nat,
           TimeInv(o, t, m), NEW ts \in Nat, NEW q \in FlushIfStale(o, Sec(ts), m)
    PROVE  SameButBatch(o, q) /\ CountsInv(q, n) /\ BatchInv(q) /\ TimeInv(q, ts, m)
<1>1. o.lastPkt <= m /\ o.heard <= m
    BY Zenon DEF TimeInv
<1>2. CASE o.batch.num > 0 /\ IsOld(o.batch, Sec(ts))
  <2>1. q \in Flush(o, m)
    BY <1>2, Zenon DEF FlushIfStale
  <2>2. QED
    BY <1>1, <2>1, FlushKeeps, Zenon
<1>3. CASE ~(o.batch.num > 0 /\ IsOld(o.batch, Sec(ts)))
  <2>1. q = o
    BY <1>3, Zenon DEF FlushIfStale
  <2>2. SameButBatch(o, o)
    BY Zenon DEF SameButBatch, SameSetup, SameRate, SameFiles
  <2>3. Sec(ts) \in Nat /\ o.batch.first \in Nat /\ FlushDur \in Nat
    BY SecFacts, Sizes, Zenon DEF OutRec, BatchRec
  <2>4. o.batch.num > 0 => o.batch.first # 0 /\ Sec(ts) <= o.batch.first + FlushDur
    BY <1>3, <2>3 DEF TimeInv, IsOld
  <2>5. TimeInv(o, ts, m)
    BY <2>4, Zenon DEF TimeInv
  <2>6. QED
    BY <2>1, <2>2, <2>5, Zenon
<1>4. QED
    BY <1>2, <1>3, Zenon

(***************************************************************************)
(* What a record adds to the content of the buffer.                        *)
(***************************************************************************)
LEMMA PutFacts ==
    ASSUME NEW h \in HeldRec, NEW data \in Nat
    PROVE  /\ Put(h, data) \in HeldRec /\ Put(h, data).bytes = h.bytes + data
           /\ data > 0 => Put(h, data).packets = h.packets + 1 /\ Put(h, data).heartbeats = h.heartbeats
           /\ ~(data > 0) => Put(h, data).packets = h.packets /\ Put(h, data).heartbeats = h.heartbeats + 1
<1>1. h.packets \in Nat /\ h.heartbeats \in Nat /\ h.bytes \in Nat
    BY Zenon DEF HeldRec
<1>2. CASE data > 0
  <2>1. Put(h, data) = [packets |-> h.packets + 1, heartbeats |-> h.heartbeats, bytes |-> h.bytes + data]
    BY <1>2, Zenon DEF Put, HeldRec
  <2>2. QED
    BY <1>1, <1>2, <2>1 DEF HeldRec
<1>3. CASE ~(data > 0)
  <2>1. Put(h, data) = [packets |-> h.packets, heartbeats |-> h.heartbeats + 1, bytes |-> h.bytes]
    BY <1>3, Zenon DEF Put, HeldRec
  <2>2. QED
    BY <1>1, <1>3, <2>1 DEF HeldRec
<1>4. QED
    BY <1>2, <1>3, Zenon

(***************************************************************************)
(* One more record is one more packet or one more heartbeat.               *)
(***************************************************************************)
LEMMA RecordCounts ==
    ASSUME NEW f \in Nat, NEW d \in Nat, NEW k \in Nat, NEW e \in Nat, NEW hp \in Nat, NEW hb \in Nat,
           NEW n \in Nat, NEW beat \in {0, 1}, f + d + (k - e) = n, k = hp + hb, e = hb
    PROVE  /\ f + d + ((k + 1) - (e + beat)) = n + (1 - beat)
           /\ k + 1 = (hp + (1 - beat)) + (hb + beat) /\ e + beat = hb + beat
OBVIOUS

(***************************************************************************)
(* A record is added to the batch: one more packet, or a heartbeat.        *)
(***************************************************************************)
LEMMA RecordFacts ==
    ASSUME NEW o \in OutRec, NEW n \in Nat, CountsInv(o, n), NEW data \in Nat, NEW len \in Nat,
           NEW beat \in {0, 1}, data > 0 <=> beat = 0,
           NEW q, q = AppendRecord(o, data, len, beat)
    PROVE  /\ SameButBatch(o, q) /\ CountsInv(q, n + (1 - beat))
           /\ q.batch.num = o.batch.num + 1 /\ q.batch.pos = o.batch.pos + RecordLen + len
           /\ q.batch.first = o.batch.first /\ q.heard = o.heard /\ q.lastPkt = o.lastPkt
<1>1. PICK b \in BatchRec : b = o.batch
    BY Zenon DEF OutRec
<1>2. PICK h : h = Put(b.held, data)
    BY Zenon
<1>3. /\ h \in HeldRec /\ h.packets = b.held.packets + (1 - beat)
      /\ h.heartbeats = b.held.heartbeats + beat /\ h.bytes = b.held.bytes + data
  <2>1. b.held \in HeldRec
    BY <1>1, Zenon DEF BatchRec
  <2>2. CASE beat = 0
    BY <1>2, <2>1, <2>2, PutFacts DEF HeldRec
  <2>3. CASE beat = 1
    <3>1. ~(data > 0) /\ data = 0
      BY <2>3
    <3>2. /\ h \in HeldRec /\ h.bytes = b.held.bytes + data /\ h.packets = b.held.packets
          /\ h.heartbeats = b.held.heartbeats + 1
      BY <1>2, <2>1, <3>1, PutFacts, Zenon
    <3>3. QED
      BY <2>1, <2>3, <3>1, <3>2 DEF HeldRec
  <2>4. QED
    BY <2>2, <2>3, Zenon
<1>4. PICK c : c = [held |-> h, first |-> b.first, pos |-> b.pos + RecordLen + len,
                    num |-> b.num + 1, beats |-> b.beats + beat, bytes |-> b.bytes + data]
    BY Zenon
<1>5. /\ c.held = h /\ c.first = b.first /\ c.pos = b.pos + RecordLen + len /\ c.num = b.num + 1
      /\ c.beats = b.beats + beat /\ c.bytes = b.bytes + data
    BY <1>4, Zenon
<1>6. c \in BatchRec
    BY <1>1, <1>3, <1>4, Sizes DEF BatchRec
<1>7. q = [o EXCEPT !.batch = c]
    BY <1>1, <1>2, <1>4, Zenon DEF AppendRecord
<1>8. /\ SameButBatch(o, q) /\ SameCounts(o, q) /\ q.batch = c /\ q.heard = o.heard /\ q.lastPkt = o.lastPkt
    BY <1>6, <1>7 DEF OutRec, SameButBatch, SameSetup, SameRate, SameFiles, SameCounts
<1>9. /\ PacketsOf(q, "fwd") = PacketsOf(o, "fwd") /\ DroppedBy(q) = DroppedBy(o)
      /\ BytesOf(q, "fwd") = BytesOf(o, "fwd") /\ PacketsOf(q, "heartbeat") = PacketsOf(o, "heartbeat")
      /\ q.sink = o.sink
    BY <1>8, Zenon DEF SameCounts, PacketsOf, BytesOf, DroppedBy
<1>10. /\ PacketsOf(o, "fwd") \in Nat /\ DroppedBy(o) \in Nat
       /\ b.num \in Nat /\ b.beats \in Nat /\ b.bytes \in Nat
       /\ b.held.packets \in Nat /\ b.held.heartbeats \in Nat /\ b.held.bytes \in Nat
    BY <1>1, CountsAreNat, Zenon DEF Fates
<1>11. /\ PacketsOf(o, "fwd") + DroppedBy(o) + (b.num - b.beats) = n
       /\ b.num = b.held.packets + b.held.heartbeats /\ b.beats = b.held.heartbeats
       /\ b.bytes = b.held.bytes
    BY <1>1, Zenon DEF CountsInv
<1>12. /\ PacketsOf(q, "fwd") + DroppedBy(q) + (c.num - c.beats) = n + (1 - beat)
       /\ c.num = c.held.packets + c.held.heartbeats /\ c.beats = c.held.heartbeats
       /\ c.bytes = c.held.bytes
  <2>1. PICK f \in Nat, d \in Nat, k \in Nat, e \in Nat, hp \in Nat, hb \in Nat :
            /\ f = PacketsOf(o, "fwd") /\ d = DroppedBy(o) /\ k = b.num /\ e = b.beats
            /\ hp = b.held.packets /\ hb = b.held.heartbeats
    BY <1>10, Zenon
  <2>2. f + d + (k - e) = n /\ k = hp + hb /\ e = hb
    BY <1>11, <2>1, Zenon
  <2>3. /\ f + d + ((k + 1) - (e + beat)) = n + (1 - beat)
        /\ k + 1 = (hp + (1 - beat)) + (hb + beat) /\ e + beat = hb + beat
    BY <2>2, RecordCounts
  <2>4. c.num = k + 1 /\ c.beats = e + beat /\ c.held.packets = hp + (1 - beat) /\ c.held.heartbeats = hb + beat
    BY <1>3, <1>5, <2>1, Zenon
  <2>5. PacketsOf(q, "fwd") = f /\ DroppedBy(q) = d /\ c.bytes = c.held.bytes
    BY <1>3, <1>5, <1>9, <1>11, <2>1, Zenon
  <2>6. QED
    BY <2>3, <2>4, <2>5, Zenon
<1>13. CountsInv(q, n + (1 - beat))
    BY <1>8, <1>9, <1>12, Zenon DEF CountsInv
<1>14. QED
    BY <1>1, <1>5, <1>8, <1>13, Zenon

(***************************************************************************)
(* The time of the first packet of a batch is set.                         *)
(***************************************************************************)
LEMMA FirstFacts ==
    ASSUME NEW o \in OutRec, NEW n \in Nat, CountsInv(o, n), NEW a \in Nat,
           NEW q, q = [o EXCEPT !.batch.first = a]
    PROVE  /\ SameButBatch(o, q) /\ CountsInv(q, n)
           /\ q.batch.first = a /\ q.batch.num = o.batch.num /\ q.batch.pos = o.batch.pos
           /\ q.heard = o.heard /\ q.lastPkt = o.lastPkt
<1>1. PICK b \in BatchRec : b = o.batch
    BY Zenon DEF OutRec
<1>2. PICK c : c = [b EXCEPT !.first = a]
    BY Zenon
<1>3. /\ c \in BatchRec /\ c.held = b.held /\ c.first = a /\ c.pos = b.pos /\ c.num = b.num
      /\ c.beats = b.beats /\ c.bytes = b.bytes
    BY <1>2, Zenon DEF BatchRec
<1>4. q = [o EXCEPT !.batch = c]
    BY <1>1, <1>2, Zenon
<1>5. /\ SameButBatch(o, q) /\ SameCounts(o, q) /\ q.batch = c /\ q.heard = o.heard /\ q.lastPkt = o.lastPkt
    BY <1>3, <1>4 DEF OutRec, SameButBatch, SameSetup, SameRate, SameFiles, SameCounts
<1>6. CountsInv(q, n)
    BY <1>1, <1>3, <1>5, Zenon DEF SameCounts, CountsInv, DroppedBy, PacketsOf, BytesOf
<1>7. QED
    BY <1>1, <1>3, <1>5, <1>6, Zenon

(***************************************************************************)
(* The admitted packet goes into a batch with room for it that is not old. *)
(***************************************************************************)
LEMMA GatherFacts ==
    ASSUME NEW o \in OutRec, NEW n \in Nat, CountsInv(o, n), BatchInv(o), o.kind = "zmq", o.open,
           NEW m \in Nat, NEW t \in Nat, TimeInv(o, t, m),
           NEW p, p.ts \in Nat, p.ts >= TicksPerSec, p.ts <= m,
           NEW len \in Nat, len > 0, len <= MaxFrame, NEW q \in Gather(o, p, len, m)
    PROVE  /\ SameButBatch(o, q) /\ CountsInv(q, n + 1) /\ BatchInv(q) /\ TimeInv(q, p.ts, m)
<1>1. PICK ts \in Nat : ts = p.ts /\ ts >= TicksPerSec /\ ts <= m
    BY Zenon
<1>2. PICK sec \in Nat : sec = Sec(p.ts) /\ sec # 0
  <2>1. Sec(ts) \in Nat /\ (Sec(ts) = 0 <=> ts < TicksPerSec)
    BY SecFacts, SecZero, Zenon
  <2>2. QED
    BY <1>1, <2>1, Sizes
<1>3. PICK a \in Nat : a = IF o.batch.num = 0 THEN sec ELSE o.batch.first
    BY Zenon DEF OutRec, BatchRec
<1>4a. PICK o1 : o1 = [o EXCEPT !.batch.first = IF o.batch.num = 0 THEN Sec(p.ts) ELSE @]
    BY Zenon
<1>4. o1 = [o EXCEPT !.batch.first = a]
    BY <1>2, <1>3, <1>4a, Zenon
<1>5. /\ SameButBatch(o, o1) /\ CountsInv(o1, n)
      /\ o1.batch.first = a /\ o1.batch.num = o.batch.num /\ o1.batch.pos = o.batch.pos
      /\ o1.heard = o.heard /\ o1.lastPkt = o.lastPkt
    BY <1>4, FirstFacts
<1>6. o1 \in OutRec /\ o.batch.num \in Nat /\ o.batch.pos \in Nat /\ o.lastPkt \in Nat /\ o.heard \in Nat
    BY <1>5, Zenon DEF SameButBatch, OutRec, BatchRec
<1>7. a # 0 /\ o.heard <= m /\ o.lastPkt <= m
    BY <1>2, <1>3, <1>6 DEF TimeInv
<1> DEFINE full == IsFull(o1.batch, len + LabelLen) \/ IsOld(o1.batch, Sec(p.ts))
           Room == IF full THEN {[c EXCEPT !.batch.first = Sec(p.ts)] : c \in Flush(o1, m)} ELSE {o1}
<1>8. PICK r \in Room :
          q = [AppendRecord(r, len, len + LabelLen, 0) EXCEPT
                 !.batch.first = IF @ = 0 THEN Sec(p.ts) ELSE @, !.lastPkt = p.ts]
    BY <1>4a, Zenon DEF Gather
<1>9. /\ SameButBatch(o, r) /\ CountsInv(r, n) /\ r.batch.first # 0 /\ sec <= r.batch.first + FlushDur
      /\ r.batch.num + 1 <= MaxNum /\ r.batch.pos + RecordLen + (len + LabelLen) <= MaxBatch
      /\ r.batch.pos >= BatchHdr /\ r.heard <= m
  <2>1. CASE full
    <3>1. PICK c \in Flush(o1, m) : r = [c EXCEPT !.batch.first = sec]
      BY <1>2, <1>8, <2>1, Zenon
    <3>2. SameButBatch(o1, c) /\ CountsInv(c, n) /\ c.batch = EmptyBatch /\ c.heard = m
      BY <1>5, <1>6, <3>1, FlushFacts
    <3>3. c \in OutRec
      BY <3>2, Zenon DEF SameButBatch
    <3>4. /\ SameButBatch(c, r) /\ CountsInv(r, n) /\ r.batch.first = sec
          /\ r.batch.num = c.batch.num /\ r.batch.pos = c.batch.pos /\ r.heard = c.heard
      BY <1>2, <3>1, <3>2, <3>3, FirstFacts
    <3>5. SameButBatch(o, r)
      BY <1>5, <3>2, <3>4, Zenon DEF SameButBatch, SameSetup, SameRate, SameFiles
    <3>6. r.batch.num = 0 /\ r.batch.pos = BatchHdr /\ r.heard = m
      BY <3>2, <3>4, EmptyFacts, Zenon
    <3>7. BatchHdr + RecordLen + (len + LabelLen) <= MaxBatch
      BY Sizes, SizeAssumption
    <3>8. QED
      BY <1>2, <3>4, <3>5, <3>6, <3>7, Sizes
  <2>2. CASE ~full
    <3>1. r = o1
      BY <1>8, <2>2, Zenon
    <3>2. ~(o1.batch.num >= MaxNum) /\ o1.batch.pos + RecordLen + (len + LabelLen) <= MaxBatch
      BY <2>2, Zenon DEF IsFull, HasRoom
    <3>3. ~(o1.batch.first # 0 /\ sec > o1.batch.first + FlushDur)
      BY <1>2, <2>2, Zenon DEF IsOld
    <3>4. sec <= a + FlushDur
      BY <1>5, <1>7, <3>3, Sizes
    <3>5. o.batch.num + 1 <= MaxNum
      BY <1>5, <1>6, <3>2, Sizes
    <3>6. o.batch.pos >= BatchHdr
      BY <1>6, Sizes DEF BatchInv
    <3>7. QED
      BY <1>5, <1>7, <3>1, <3>2, <3>4, <3>5, <3>6, Zenon
  <2>3. QED
    BY <2>1, <2>2, Zenon
<1> HIDE DEF full, Room
<1>10. PICK s : s = AppendRecord(r, len, len + LabelLen, 0)
    BY Zenon
<1>11. r \in OutRec /\ len + LabelLen \in Nat
    BY <1>9, Sizes DEF SameButBatch
<1>12. /\ SameButBatch(r, s) /\ CountsInv(s, n + (1 - 0))
       /\ s.batch.num = r.batch.num + 1 /\ s.batch.pos = r.batch.pos + RecordLen + (len + LabelLen)
       /\ s.batch.first = r.batch.first /\ s.heard = r.heard
  <2>1. 0 \in {0, 1} /\ (len > 0 <=> 0 = 0)
    OBVIOUS
  <2>2. PICK w \in Nat : w = len + LabelLen
    BY <1>11, Zenon
  <2>3. CountsInv(r, n)
    BY <1>9, Zenon
  <2>4. s = AppendRecord(r, len, w, 0)
    BY <1>10, <2>2, Zenon
  <2>5. /\ SameButBatch(r, s) /\ CountsInv(s, n + (1 - 0))
        /\ s.batch.num = r.batch.num + 1 /\ s.batch.pos = r.batch.pos + RecordLen + w
        /\ s.batch.first = r.batch.first /\ s.heard = r.heard
    BY <1>11, <2>1, <2>2, <2>3, <2>4, RecordFacts
  <2>6. QED
    BY <2>2, <2>5, Zenon
<1>13. s \in OutRec /\ s.batch \in BatchRec /\ s.batch.first # 0 /\ n + (1 - 0) = n + 1 /\ n + 1 \in Nat
  <2>1. s \in OutRec
    BY <1>12, Zenon DEF SameButBatch
  <2>2. s.batch \in BatchRec
    BY <2>1, Zenon DEF OutRec
  <2>3. s.batch.first # 0
    BY <1>9, <1>12, Zenon
  <2>4. n + (1 - 0) = n + 1 /\ n + 1 \in Nat
    OBVIOUS
  <2>5. QED
    BY <2>1, <2>2, <2>3, <2>4, Zenon
<1>14. q = [s EXCEPT !.lastPkt = ts]
    BY <1>1, <1>8, <1>10, <1>13 DEF OutRec, BatchRec
<1>15. /\ SameButBatch(s, q) /\ SameCounts(s, q) /\ q.batch = s.batch /\ q.heard = s.heard /\ q.lastPkt = ts
    BY <1>13, <1>14, Zenon DEF OutRec, SameButBatch, SameSetup, SameRate, SameFiles, SameCounts
<1>16. SameButBatch(o, q)
    BY <1>9, <1>12, <1>15, Zenon DEF SameButBatch, SameSetup, SameRate, SameFiles
<1>17. CountsInv(q, n + 1)
    BY <1>12, <1>13, <1>15, CountsKept, Zenon
<1>18. r.batch.num \in Nat /\ r.batch.pos \in Nat
    BY <1>11, Zenon DEF OutRec, BatchRec
<1>19. q.kind = "zmq" /\ q.open
    BY <1>16, Zenon DEF SameButBatch, SameSetup
<1>20. q.batch.pos \in BatchHdr .. MaxBatch /\ q.batch.num <= MaxNum /\ q.batch.num > 0 /\ q.batch.num # 0
  <2>1. PICK k \in Nat, z \in Nat, y \in Nat :
            k = r.batch.num /\ z = r.batch.pos /\ y = RecordLen + (len + LabelLen)
    BY <1>11, <1>18, Sizes
  <2>2. q.batch.num = k + 1 /\ k + 1 <= MaxNum
    BY <1>9, <1>12, <1>15, <2>1, Zenon
  <2>3. k + 1 > 0 /\ k + 1 # 0
    BY <2>1
  <2>4. q.batch.pos = z + RecordLen + (len + LabelLen) /\ z + RecordLen + (len + LabelLen) <= MaxBatch /\ z >= BatchHdr
    BY <1>9, <1>12, <1>15, <2>1, Zenon
  <2>5. z + RecordLen + (len + LabelLen) \in BatchHdr .. MaxBatch
    BY <2>1, <2>4, Sizes
  <2>6. QED
    BY <2>2, <2>3, <2>4, <2>5, Zenon
<1>21. BatchInv(q)
    BY <1>19, <1>20, Zenon DEF BatchInv
<1>22. TimeInv(q, p.ts, m)
    BY <1>1, <1>2, <1>9, <1>12, <1>15, <1>20, Zenon DEF TimeInv
<1>23. QED
    BY <1>16, <1>17, <1>21, <1>22, Zenon


(***************************************************************************)
(* What the bucket changes is not the batch.                               *)
(***************************************************************************)
LEMMA WayKeeps ==
    ASSUME NEW o \in OutRec, NEW n \in Nat, CountsInv(o, n), BatchInv(o), NEW t, NEW m, TimeInv(o, t, m),
           NEW ts, NEW r, Admits(o, r, ts)
    PROVE  /\ r \in OutRec /\ SameSetup(o, r) /\ SameFiles(o, r) /\ RateInv(r, ts)
           /\ CountsInv(r, n) /\ BatchInv(r) /\ TimeInv(r, t, m)
<1>1. r \in OutRec /\ SameSetup(o, r) /\ SameCounts(o, r) /\ SameBatch(o, r) /\ SameFiles(o, r) /\ RateInv(r, ts)
    BY Zenon DEF Admits, SameButRate
<1>2. r.batch = o.batch /\ r.lastPkt = o.lastPkt /\ r.heard = o.heard /\ r.kind = o.kind /\ r.open = o.open
    BY <1>1, Zenon DEF SameBatch, SameSetup
<1>3. CountsInv(r, n)
    BY <1>1, <1>2, CountsKept, Zenon
<1>4. BatchInv(r)
    BY <1>2, Zenon DEF BatchInv
<1>5. TimeInv(r, t, m)
    BY <1>2, Zenon DEF TimeInv
<1>6. QED
    BY <1>1, <1>3, <1>4, <1>5, Zenon

(***************************************************************************)
(* A packet of the ZMQ output: dropped, and then a batch that is old goes; *)
(* or gathered.                                                            *)
(***************************************************************************)
LEMMA ZmqHandled ==
    ASSUME NEW o \in OutRec, NEW n \in Nat, CountsInv(o, n), BatchInv(o), o.kind = "zmq", o.open,
           NEW m \in Nat, NEW t \in Nat, TimeInv(o, t, m), RateInv(o, t),
           NEW p, p.caplen \in Nat, p.tags \in Nat, p.ts \in Nat, t <= p.ts, p.ts >= TicksPerSec, p.ts <= m,
           NEW q \in ZmqSend(o, p, m)
    PROVE  /\ q \in OutRec /\ SameSetup(o, q) /\ SameFiles(o, q) /\ RateInv(q, p.ts)
           /\ CountsInv(q, n + 1) /\ BatchInv(q) /\ TimeInv(q, p.ts, m)
<1>1. PICK captured \in Nat : captured = (IF p.caplen < MaxFrame THEN p.caplen ELSE MaxFrame) /\ captured <= MaxFrame
    BY Sizes
<1>2. PICK l2 \in Nat : l2 = L2HeaderLen(p, captured) /\ l2 <= MaxFrame
  <2>1. TagLen * p.tags \in Nat
    BY Sizes
  <2>2. QED
    BY <1>1, <2>1, Sizes DEF L2HeaderLen
<1>3. PICK len \in Nat : len = ZmqFrameLen(o, p, l2) /\ len <= MaxFrame /\ (l2 # 0 => len > 0)
  <2>1. FrameLen(o, p) \in Nat /\ FrameLen(o, p) <= MaxFrame
    BY Lengths, Zenon
  <2>2. QED
    BY <1>2, <2>1, Sizes DEF ZmqFrameLen
<1>4. ASSUME NEW r, Admits(o, r, p.ts), NEW f \in Fates \ {"fwd", "heartbeat"}, NEW b \in Nat,
             NEW d, d = Count(r, f, 1, b), q \in AfterDrop(d, p, m)
      PROVE  /\ q \in OutRec /\ SameSetup(o, q) /\ SameFiles(o, q) /\ RateInv(q, p.ts)
             /\ CountsInv(q, n + 1) /\ BatchInv(q) /\ TimeInv(q, p.ts, m)
  <2>1. Handled(o, d, n, p.ts) /\ SameFiles(o, d)
    BY <1>4, DropHandled, Zenon
  <2>2. d \in OutRec /\ SameSetup(o, d) /\ SameBatch(o, d) /\ CountsInv(d, n + 1) /\ RateInv(d, p.ts)
    BY <2>1, Zenon DEF Handled
  <2>3. d.batch = o.batch /\ d.lastPkt = o.lastPkt /\ d.heard = o.heard /\ d.kind = o.kind /\ d.open = o.open
    BY <2>2, Zenon DEF SameBatch, SameSetup
  <2>4. BatchInv(d) /\ TimeInv(d, t, m)
    BY <2>3, Zenon DEF BatchInv, TimeInv
  <2>5. q \in FlushIfStale(d, Sec(p.ts), m) /\ n + 1 \in Nat
    BY <1>4 DEF AfterDrop
  <2>6. SameButBatch(d, q) /\ CountsInv(q, n + 1) /\ BatchInv(q) /\ TimeInv(q, p.ts, m)
    BY <2>2, <2>4, <2>5, StaleFacts, Zenon
  <2>7. q \in OutRec /\ SameSetup(o, q) /\ SameFiles(o, q)
    BY <2>1, <2>2, <2>6, Zenon DEF SameButBatch, SameSetup, SameFiles
  <2>8. RateInv(q, p.ts)
    BY <2>2, <2>6, Zenon DEF SameButBatch, SameRate, RateInv
  <2>9. QED
    BY <2>6, <2>7, <2>8, Zenon
<1>5. ASSUME NEW r, Admits(o, r, p.ts), l2 # 0, q \in Gather(r, p, len, m)
      PROVE  /\ q \in OutRec /\ SameSetup(o, q) /\ SameFiles(o, q) /\ RateInv(q, p.ts)
             /\ CountsInv(q, n + 1) /\ BatchInv(q) /\ TimeInv(q, p.ts, m)
  <2>1. /\ r \in OutRec /\ SameSetup(o, r) /\ SameFiles(o, r) /\ RateInv(r, p.ts)
        /\ CountsInv(r, n) /\ BatchInv(r) /\ TimeInv(r, t, m)
    BY <1>5, WayKeeps, Zenon
  <2>2. r.kind = "zmq" /\ r.open
    BY <2>1, Zenon DEF SameSetup
  <2>3. SameButBatch(r, q) /\ CountsInv(q, n + 1) /\ BatchInv(q) /\ TimeInv(q, p.ts, m)
    BY <1>3, <1>5, <2>1, <2>2, GatherFacts, Zenon
  <2>4. q \in OutRec /\ SameSetup(o, q) /\ SameFiles(o, q)
    BY <2>1, <2>3, Zenon DEF SameButBatch, SameSetup, SameFiles
  <2>5. RateInv(q, p.ts)
    BY <2>1, <2>3, Zenon DEF SameButBatch, SameRate, RateInv
  <2>6. QED
    BY <2>3, <2>4, <2>5, Zenon
<1>6. CASE l2 = 0
  <2>1. PICK d : d = Count(o, "error_drop", 1, p.caplen)
    BY Zenon
  <2>2. q \in AfterDrop(d, p, m)
    BY <1>1, <1>2, <1>6, <2>1, Zenon DEF ZmqSend
  <2>3. Admits(o, o, p.ts) /\ "error_drop" \in Fates \ {"fwd", "heartbeat"}
    BY SelfAdmits, Zenon DEF Fates
  <2>4. QED
    BY <1>4, <2>1, <2>2, <2>3, Zenon
<1>7. CASE l2 # 0
  <2>1. PICK r : Way(o, p, len, r)
    BY <1>3, WayExists, Zenon
  <2>2. Admits(o, r, p.ts)
    BY <2>1, Zenon DEF Way
  <2>3. CASE p.dir = "unknown"
    <3>1. PICK d : d = Count(o, "direction_drop", 1, len)
      BY Zenon
    <3>2. q \in AfterDrop(d, p, m)
      BY <1>1, <1>2, <1>3, <1>7, <2>3, <3>1, Zenon DEF ZmqSend, Admit
    <3>3. d = Count(r, "direction_drop", 1, len) /\ "direction_drop" \in Fates \ {"fwd", "heartbeat"}
      BY <2>1, <2>3, <3>1, Zenon DEF Way, Fates
    <3>4. QED
      BY <1>3, <1>4, <2>2, <3>2, <3>3, Zenon
  <2>4. CASE p.dir # "unknown" /\ o.bucket.rate > 0 /\ ~Consume(o.bucket, len, p.ts).ok
    <3>1. PICK d : d = Count(Spent(o, len, p.ts), "ratelimit_drop", 1, len)
      BY Zenon
    <3>2. q \in AfterDrop(d, p, m)
      BY <1>1, <1>2, <1>3, <1>7, <2>4, <3>1, Zenon DEF ZmqSend, Admit, Spent
    <3>3. d = Count(r, "ratelimit_drop", 1, len) /\ "ratelimit_drop" \in Fates \ {"fwd", "heartbeat"}
      BY <2>1, <2>4, <3>1, Zenon DEF Way, Fates
    <3>4. QED
      BY <1>3, <1>4, <2>2, <3>2, <3>3, Zenon
  <2>5. CASE p.dir # "unknown" /\ o.bucket.rate > 0 /\ Consume(o.bucket, len, p.ts).ok
    <3>1. q \in Gather(Passed(o, len, p.ts), p, len, m)
      BY <1>1, <1>2, <1>3, <1>7, <2>5, Zenon DEF ZmqSend, Admit, Spent, Passed
    <3>2. r = Passed(o, len, p.ts)
      BY <2>1, <2>5, Zenon DEF Way
    <3>3. q \in Gather(r, p, len, m)
      BY <3>1, <3>2, Zenon
    <3>4. QED
      BY <1>5, <1>7, <2>2, <3>3, Zenon
  <2>6. CASE p.dir # "unknown" /\ ~(o.bucket.rate > 0)
    <3>1. q \in Gather(o, p, len, m)
      BY <1>1, <1>2, <1>3, <1>7, <2>6, Zenon DEF ZmqSend, Admit
    <3>2. r = o
      BY <2>1, <2>6, Zenon DEF Way
    <3>3. QED
      BY <1>5, <1>7, <2>2, <3>1, <3>2, Zenon
  <2>7. QED
    BY <2>3, <2>4, <2>5, <2>6, Zenon
<1>8. QED
    BY <1>6, <1>7, Zenon


(***************************************************************************)
(* send_heartbeat: what was pending and the heartbeat go at once.          *)
(***************************************************************************)
LEMMA SendHeartbeatFacts ==
    ASSUME NEW o \in OutRec, NEW n \in Nat, CountsInv(o, n), NEW m \in Nat, NEW t \in Nat,
           o.lastPkt <= m, NEW q \in SendHeartbeat(o, m)
    PROVE  /\ SameButBatch(o, q) /\ CountsInv(q, n) /\ BatchInv(q) /\ TimeInv(q, t, m)
           /\ q.heard = m
<1> DEFINE Room == IF HasRoom(o.batch, EtherLen) THEN {o} ELSE Flush(o, m)
           Opened(c) == [c EXCEPT !.batch.first = IF c.batch.num = 0 THEN Sec(m) ELSE @]
<1>1. PICK r \in Room : \E c \in Flush(AppendRecord(Opened(r), 0, EtherLen, 1), m) : q = [c EXCEPT !.lastPkt = m]
  <2>1. PICK c \in UNION {Flush(AppendRecord(Opened(r), 0, EtherLen, 1), m) : r \in Room} :
            q = [c EXCEPT !.lastPkt = m]
    BY Zenon DEF SendHeartbeat
  <2> HIDE DEF Room, Opened
  <2>2. PICK r \in Room : c \in Flush(AppendRecord(Opened(r), 0, EtherLen, 1), m)
    BY <2>1, Zenon
  <2>3. QED
    BY <2>1, <2>2, Zenon
<1>2. SameButBatch(o, r) /\ r \in OutRec /\ CountsInv(r, n) /\ r.lastPkt = o.lastPkt
  <2>1. CASE r = o
    BY <2>1, Zenon DEF SameButBatch, SameSetup, SameRate, SameFiles
  <2>2. CASE r \in Flush(o, m)
    BY <2>2, FlushFacts DEF SameButBatch
  <2>3. QED
    BY <1>1, <2>1, <2>2, Zenon
<1> HIDE DEF Room
<1>3. PICK a \in Nat : a = IF r.batch.num = 0 THEN Sec(m) ELSE r.batch.first
    BY <1>2, SecFacts, Zenon DEF OutRec, BatchRec
<1>4. PICK r1 : r1 = Opened(r)
    BY Zenon
<1>5. r1 = [r EXCEPT !.batch.first = a]
    BY <1>3, <1>4, Zenon
<1>6. PICK s : s = AppendRecord(r1, 0, EtherLen, 1)
    BY Zenon
<1>7. PICK c \in Flush(s, m) : q = [c EXCEPT !.lastPkt = m]
    BY <1>1, <1>4, <1>6, Zenon
<1> HIDE DEF Opened
<1>8. SameButBatch(r, r1) /\ CountsInv(r1, n) /\ r1.lastPkt = r.lastPkt
    BY <1>2, <1>3, <1>5, FirstFacts
<1>9. r1 \in OutRec /\ EtherLen \in Nat
    BY <1>8, Sizes, Zenon DEF SameButBatch
<1>10. SameButBatch(r1, s) /\ CountsInv(s, n + (1 - 1)) /\ s.lastPkt = r1.lastPkt
    BY <1>6, <1>8, <1>9, RecordFacts
<1>11. s \in OutRec /\ CountsInv(s, n) /\ s.lastPkt <= m
  <2>1. n + (1 - 1) = n
    OBVIOUS
  <2>2. QED
    BY <1>2, <1>8, <1>10, <2>1, Zenon DEF SameButBatch
<1>12. /\ SameButBatch(s, c) /\ CountsInv(c, n) /\ BatchInv(c) /\ TimeInv(c, t, m)
       /\ c.batch = EmptyBatch /\ c.heard = m
    BY <1>7, <1>11, FlushKeeps
<1>13. c \in OutRec
    BY <1>12, Zenon DEF SameButBatch
<1>14. /\ SameButBatch(c, q) /\ SameCounts(c, q) /\ q.batch = EmptyBatch /\ q.heard = m /\ q.lastPkt = m
    BY <1>7, <1>12, <1>13, Zenon DEF OutRec, SameButBatch, SameSetup, SameRate, SameFiles, SameCounts
<1>15. SameButBatch(o, q)
    BY <1>2, <1>8, <1>10, <1>12, <1>14 DEF SameButBatch, SameSetup, SameRate, SameFiles
<1>16. CountsInv(q, n)
    BY <1>12, <1>14, CountsKept, Zenon
<1>17. BatchInv(q)
    BY <1>14, EmptyFacts, Zenon DEF BatchInv
<1>18. TimeInv(q, t, m)
  <2>1. m <= m /\ ~(0 > 0)
    OBVIOUS
  <2>2. q.batch.num = 0
    BY <1>14, EmptyFacts, Zenon
  <2>3. QED
    BY <1>14, <2>1, <2>2, Zenon DEF TimeInv
<1>19. QED
    BY <1>14, <1>15, <1>16, <1>17, <1>18, Zenon

(***************************************************************************)
(* The receiver heard of the output within the heartbeat interval.         *)
(***************************************************************************)
IdleInv(o, t) == o.every > 0 /\ o.batch.num = 0 => t - o.heard < o.every

(***************************************************************************)
(* While no heartbeat is due, also by the coarse test of the seconds.      *)
(***************************************************************************)
LEMMA NotDue ==
    ASSUME NEW o \in OutRec, NEW t \in Nat, NEW m \in Nat, t <= m, ~HeartbeatDue(o, t, m),
           o.batch.num = 0 => o.lastPkt <= o.heard
    PROVE  IdleInv(o, t)
<1>1. SUFFICES ASSUME o.every > 0, o.batch.num = 0 PROVE t - o.heard < o.every
    BY Zenon DEF IdleInv
<1>2. PICK l \in Nat, h \in Nat, e \in Nat, k \in Nat :
          l = o.lastPkt /\ h = o.heard /\ e = o.every /\ k = TicksPerSec
    BY Sizes, Zenon DEF OutRec
<1>3. l <= h
    BY <1>1, <1>2, Zenon
<1>4. CASE ~(m - l >= e)
    BY <1>2, <1>3, <1>4
<1>5. CASE ~((Sec(t) - Sec(l)) * k >= e - k)
  <2>1. PICK x \in Nat, y \in Nat : x = Sec(t) /\ y = Sec(l)
    BY SecFacts, Zenon
  <2>2. t < k * x + k /\ k * y <= l
    BY <1>2, <2>1, SecFacts, Zenon
  <2>3. (x - y) * k = k * x - k * y /\ k * x \in Nat /\ k * y \in Nat /\ (x - y) * k \in Int
    OBVIOUS
  <2>4. (x - y) * k < e - k
    BY <1>5, <2>1, <2>3
  <2>5. t - h < e
    BY <1>3, <2>2, <2>3, <2>4
  <2>6. QED
    BY <1>2, <2>5, Zenon
<1>6. QED
    BY <1>1, <1>2, <1>4, <1>5, Zenon DEF HeartbeatDue

(***************************************************************************)
(* zmq_heartbeat.                                                          *)
(***************************************************************************)
LEMMA HeartbeatFacts ==
    ASSUME NEW o \in OutRec, NEW n \in Nat, CountsInv(o, n), BatchInv(o), NEW m \in Nat, NEW s \in Nat,
           TimeInv(o, s, m), NEW t \in Nat, t <= m, NEW q \in ZmqHeartbeat(o, t, m)
    PROVE  SameButBatch(o, q) /\ CountsInv(q, n) /\ BatchInv(q) /\ TimeInv(q, t, m) /\ IdleInv(q, t)
<1>1. PICK r \in FlushIfStale(o, Sec(t), m) :
          q \in IF HeartbeatDue(r, t, m) THEN SendHeartbeat(r, m) ELSE {r}
    BY Zenon DEF ZmqHeartbeat
<1>2. SameButBatch(o, r) /\ CountsInv(r, n) /\ BatchInv(r) /\ TimeInv(r, t, m)
    BY <1>1, StaleFacts, Zenon
<1>3. r \in OutRec /\ r.lastPkt <= m /\ (r.batch.num = 0 => r.lastPkt <= r.heard)
    BY <1>2, Zenon DEF SameButBatch, TimeInv
<1>4. CASE HeartbeatDue(r, t, m)
  <2>1. SameButBatch(r, q) /\ CountsInv(q, n) /\ BatchInv(q) /\ TimeInv(q, t, m) /\ q.heard = m
    BY <1>1, <1>2, <1>3, <1>4, SendHeartbeatFacts, Zenon
  <2>2. SameButBatch(o, q)
    BY <1>2, <2>1, Zenon DEF SameButBatch, SameSetup, SameRate, SameFiles
  <2>3. q.every \in Nat
    BY <2>1, Zenon DEF SameButBatch, OutRec
  <2>4. IdleInv(q, t)
    BY <2>1, <2>3 DEF IdleInv
  <2>5. QED
    BY <2>1, <2>2, <2>4, Zenon
<1>5. CASE ~HeartbeatDue(r, t, m)
  <2>1. q = r
    BY <1>1, <1>5, Zenon
  <2>2. IdleInv(r, t)
    BY <1>3, <1>5, NotDue, Zenon
  <2>3. QED
    BY <1>2, <2>1, <2>2, Zenon
<1>6. QED
    BY <1>4, <1>5, Zenon

(***************************************************************************)
(* zmq_destroy leaves nothing pending.                                     *)
(***************************************************************************)
LEMMA DestroyFacts ==
    ASSUME NEW o \in OutRec, NEW n \in Nat, CountsInv(o, n), BatchInv(o), NEW m \in Nat, NEW t \in Nat,
           TimeInv(o, t, m), NEW q \in ZmqDestroy(o, m)
    PROVE  /\ SameButBatch(o, q) /\ CountsInv(q, n) /\ BatchInv(q) /\ TimeInv(q, t, m) /\ q.batch.num = 0
<1>1. o.lastPkt <= m /\ o.batch.num \in Nat
    BY Zenon DEF TimeInv, OutRec, BatchRec
<1>2. CASE o.batch.num > 0
  <2>1. q \in Flush(o, m)
    BY <1>2, Zenon DEF ZmqDestroy
  <2>2. SameButBatch(o, q) /\ CountsInv(q, n) /\ BatchInv(q) /\ TimeInv(q, t, m)
    BY <1>1, <2>1, FlushKeeps, Zenon
  <2>3. q.batch = EmptyBatch
    BY <2>1, FlushFacts
  <2>4. QED
    BY <2>2, <2>3, EmptyFacts, Zenon
<1>3. CASE ~(o.batch.num > 0)
  <2>1. q = o /\ o.batch.num = 0
    BY <1>1, <1>3 DEF ZmqDestroy
  <2>2. SameButBatch(o, o)
    BY Zenon DEF SameButBatch, SameSetup, SameRate, SameFiles
  <2>3. QED
    BY <2>1, <2>2, Zenon
<1>4. QED
    BY <1>2, <1>3, Zenon


-----------------------------------------------------------------------------
(***************************************************************************)
(* The kernel's drops.                                                     *)
(***************************************************************************)
Diff(k, c) == ((k % Wrap) - c.prev) % Wrap

CapInv(c, k) ==
    /\ c \in CapRec
    /\ ~c.started => Value(c.drops) = 0
    /\ c.started => Value(c.drops) + Diff(k, c) = k - c.base

(***************************************************************************)
(* Quotient and remainder.                                                 *)
(***************************************************************************)
LEMMA Quotient ==
    ASSUME NEW w \in Nat \ {0}, NEW x \in Int
    PROVE  x % w \in 0 .. w - 1 /\ x \div w \in Int /\ x = w * (x \div w) + (x % w)
BY SMT

(***************************************************************************)
(* The remainder is the only one there is.                                 *)
(***************************************************************************)
LEMMA RemainderUnique ==
    ASSUME NEW w \in Nat \ {0}, NEW x \in Int, NEW a \in Int, NEW r \in 0 .. w - 1, x = w * a + r
    PROVE  x % w = r
<1>1. PICK b \in Int, s \in 0 .. w - 1 : s = x % w /\ x = w * b + s
    BY Quotient, Zenon
<1>2. w * (a - b) = s - r
    BY <1>1
<1>3. CASE a - b >= 1
  <2>1. w * (a - b) >= w
    BY <1>3
  <2>2. QED
    BY <1>1, <1>2, <2>1
<1>4. CASE a - b <= -1
  <2>1. w * (a - b) <= -w
    BY <1>4
  <2>2. QED
    BY <1>1, <1>2, <2>1
<1>5. CASE a - b = 0
    BY <1>1, <1>2, <1>5
<1>6. QED
    BY <1>3, <1>4, <1>5

(***************************************************************************)
(* What the kernel drops shows in the difference, also over a wrap of its  *)
(* counter.                                                                *)
(***************************************************************************)
Behind(w, k, p, d) == d = ((k % w) - p) % w

LEMMA DiffGrows ==
    ASSUME NEW w \in Nat \ {0}, NEW k \in Nat, NEW n \in Nat, NEW p \in Nat,
           NEW d, Behind(w, k, p, d), d + n < w
    PROVE  d \in Nat /\ Behind(w, k + n, p, d + n)
<1>0. ASSUME NEW j \in Int PROVE \E y \in Nat, b \in Int : y = j % w /\ j = w * b + y
  <2>1. j % w \in 0 .. w - 1 /\ j \div w \in Int /\ j = w * (j \div w) + (j % w)
    BY Quotient, Zenon
  <2>2. j % w \in Nat
    BY <2>1
  <2>3. QED
    BY <2>1, <2>2, Zenon
<1>1. PICK x \in Nat, c \in Int : x = k % w /\ k = w * c + x
  <2>1. k \in Int
    OBVIOUS
  <2>2. QED
    BY <1>0, <2>1, Zenon
<1>2. PICK y \in Nat, b \in Int : y = (k + n) % w /\ k + n = w * b + y
  <2>1. PICK j \in Int : j = k + n
    OBVIOUS
  <2>2. QED
    BY <1>0, <2>1, Zenon
<1>3. PICK e \in Nat, a \in Int : e = (x - p) % w /\ x - p = w * a + e
  <2>1. PICK j \in Int : j = x - p
    OBVIOUS
  <2>2. QED
    BY <1>0, <2>1, Zenon
<1>4. e = d
    BY <1>1, <1>3, Zenon DEF Behind
<1>5. PICK g \in Int : g = a + c - b
    OBVIOUS
<1>6. PICK wa \in Int, wb \in Int, wc \in Int : wa = w * a /\ wb = w * b /\ wc = w * c
    OBVIOUS
<1>6a. w * g = wa + wc - wb
    BY <1>5, <1>6
<1>6b. k = wc + x /\ k + n = wb + y /\ x - p = wa + d
    BY <1>1, <1>2, <1>3, <1>4, <1>6, Zenon
<1>7. y - p = w * g + (d + n)
    BY <1>3, <1>4, <1>6a, <1>6b
<1>8. d \in Nat /\ d + n \in 0 .. w - 1 /\ y - p \in Int
    BY <1>2, <1>3, <1>4
<1>9. (y - p) % w = d + n
    BY <1>5, <1>7, <1>8, RemainderUnique, Zenon
<1>10. QED
    BY <1>2, <1>8, <1>9, Zenon DEF Behind

(***************************************************************************)
(* A difference of two remainders is a number, and of the same it is 0.    *)
(***************************************************************************)
LEMMA DiffFacts ==
    ASSUME NEW k \in Nat, NEW c, c.prev \in Nat
    PROVE  /\ k % Wrap \in Nat /\ Diff(k, c) \in Nat
           /\ c.prev = k % Wrap => Diff(k, c) = 0
<1>1. PICK w \in Nat \ {0}, p \in Nat : w = Wrap /\ p = c.prev
    BY PathAssumption, Zenon
<1>2. PICK x \in Nat : x = k % w
    BY SMT
<1>3. PICK j \in Int : j = x - p
    OBVIOUS
<1>4. j % w \in Nat
    BY SMT
<1>5. j = 0 => j % w = 0
  <2>1. 0 \in 0 .. w - 1 /\ 0 = w * 0 + 0
    OBVIOUS
  <2>2. 0 % w = 0
    BY <2>1, RemainderUnique
  <2>3. QED
    BY <2>2, Zenon
<1>6. QED
    BY <1>1, <1>2, <1>3, <1>4, <1>5 DEF Diff

(***************************************************************************)
(* A sample of the statistics moves the difference into the counter.       *)
(***************************************************************************)
LEMMA DropStatFacts ==
    ASSUME kernel \in Nat, NEW c, CapInv(c, kernel), NEW sec \in Nat,
           NEW d \in DropStat(c, sec)
    PROVE  CapInv(d, kernel)
<1>1. c \in CapRec /\ c.prev \in Nat /\ c.drops \in Counter
    BY Zenon DEF CapInv, CapRec
<1>2. PICK x \in Nat : x = kernel % Wrap
    BY <1>1, DiffFacts, Zenon
<1>3. PICK g \in Nat : g = Diff(kernel, c)
    BY <1>1, DiffFacts, Zenon
<1>4. d = c \/ (~c.started /\ d = FirstSample(c, sec)) \/ (c.started /\ d = NextSample(c, sec))
    BY Zenon DEF DropStat
<1>5. CASE d = c
    BY <1>5, Zenon
<1>6. CASE ~c.started /\ d = FirstSample(c, sec)
  <2>1. d = [c EXCEPT !.prev = x, !.prevTime = sec, !.started = TRUE, !.base = kernel]
    BY <1>1, <1>2, <1>6, Zenon DEF FirstSample, Sampled, CapRec
  <2>2. d \in CapRec /\ d.prev = x /\ d.started /\ d.base = kernel /\ d.drops = c.drops
    BY <1>1, <2>1, Zenon DEF CapRec
  <2>3. Diff(kernel, d) = 0
    BY <1>2, <2>2, DiffFacts, Zenon
  <2>4. Value(d.drops) = 0
    BY <1>6, <2>2, Zenon DEF CapInv
  <2>5. QED
    BY <2>2, <2>3, <2>4 DEF CapInv
<1>7. CASE c.started /\ d = NextSample(c, sec)
  <2>1. PICK a : a = Add(c.drops, g)
    BY Zenon
  <2>2. a \in Counter /\ Value(a) = Value(c.drops) + g
    BY <1>1, <1>3, <2>1, AddIsExact, Zenon
  <2>3. d = [c EXCEPT !.prev = x, !.prevTime = sec, !.drops = a]
    BY <1>1, <1>2, <1>3, <1>7, <2>1, Zenon DEF NextSample, Sampled, DropDiff, Diff, CapRec
  <2>4. d \in CapRec /\ d.prev = x /\ d.started /\ d.base = c.base /\ d.drops = a
    BY <1>1, <1>7, <2>2, <2>3, Zenon DEF CapRec
  <2>5. Diff(kernel, d) = 0
    BY <1>2, <2>4, DiffFacts, Zenon
  <2>6. Value(c.drops) \in Nat /\ c.base \in Nat
    BY <1>1, ValueFacts, Zenon DEF CapRec
  <2>7. Value(c.drops) + g = kernel - c.base
    BY <1>3, <1>7, Zenon DEF CapInv
  <2>8. QED
    BY <2>2, <2>4, <2>5, <2>6, <2>7 DEF CapInv
<1>8. QED
    BY <1>4, <1>5, <1>6, <1>7, Zenon


-----------------------------------------------------------------------------
(***************************************************************************)
(* The inductive invariant.                                                *)
(***************************************************************************)
OutInv(o, n, t, m) ==
    /\ o \in OutRec
    /\ CountsInv(o, n) /\ BatchInv(o) /\ TimeInv(o, t, m) /\ RateInv(o, t) /\ FilesInv(o)

TimesInv ==
    /\ now \in Nat /\ at \in Nat /\ TicksPerSec <= at /\ at <= now
    /\ idle \in BOOLEAN /\ given \in Nat /\ kernel \in Nat

IInv ==
    /\ TimesInv
    /\ CapInv(cap, kernel)
    /\ OutInv(out, given, at, now)
    /\ out.kind = "zmq" /\ idle => IdleInv(out, at)

(***************************************************************************)
(* Invariants of an output that differs only in parts.                     *)
(***************************************************************************)
LEMMA HandledKeeps ==
    ASSUME NEW o, NEW n, NEW t \in Nat, NEW m, OutInv(o, n, t, m), o.kind # "zmq", NEW ts \in Nat,
           NEW q, Handled(o, q, n, ts), FilesInv(q)
    PROVE  OutInv(q, n + 1, ts, m)
<1>1. q \in OutRec /\ SameSetup(o, q) /\ SameBatch(o, q) /\ CountsInv(q, n + 1) /\ RateInv(q, ts)
    BY Zenon DEF Handled
<1>2. q.batch = o.batch /\ q.lastPkt = o.lastPkt /\ q.heard = o.heard /\ q.kind = o.kind /\ q.open = o.open
    BY <1>1, Zenon DEF SameBatch, SameSetup
<1>3. BatchInv(o) /\ TimeInv(o, t, m)
    BY Zenon DEF OutInv
<1>4. BatchInv(q)
    BY <1>2, <1>3, Zenon DEF BatchInv
<1>5. o.batch.num = 0
    BY <1>3, Zenon DEF BatchInv
<1>6. TimeInv(q, ts, m)
  <2>1. ~(0 > 0)
    OBVIOUS
  <2>2. QED
    BY <1>2, <1>3, <1>5, <2>1, Zenon DEF TimeInv
<1>7. QED
    BY <1>1, <1>4, <1>6, Zenon DEF OutInv

(***************************************************************************)
(* A packet is handed to the output, of any kind.                          *)
(***************************************************************************)
LEMMA SendKeeps ==
    ASSUME now \in Nat, NEW o, NEW n \in Nat, NEW t \in Nat, OutInv(o, n, t, now), o.open,
           NEW p, p.caplen \in Nat, p.tags \in Nat, p.ts \in Nat, t <= p.ts, p.ts >= TicksPerSec, p.ts <= now,
           NEW q \in OutputSend(o, p)
    PROVE  OutInv(q, n + 1, p.ts, now)
<1>1. /\ o \in OutRec /\ CountsInv(o, n) /\ BatchInv(o) /\ TimeInv(o, t, now) /\ RateInv(o, t)
      /\ FilesInv(o)
    BY Zenon DEF OutInv
<1>2. ASSUME Handled(o, q, n, p.ts), SameFiles(o, q), o.kind # "zmq"
      PROVE  OutInv(q, n + 1, p.ts, now)
  <2>1. FilesInv(q)
    BY <1>1, <1>2, Zenon DEF SameFiles, FilesInv
  <2>2. QED
    BY <1>2, <2>1, HandledKeeps, Zenon
<1>3. CASE o.kind = "zmq"
  <2>1. q \in ZmqSend(o, p, now)
    BY <1>3, Zenon DEF OutputSend
  <2>2. /\ q \in OutRec /\ SameSetup(o, q) /\ SameFiles(o, q) /\ RateInv(q, p.ts)
        /\ CountsInv(q, n + 1) /\ BatchInv(q) /\ TimeInv(q, p.ts, now)
    BY <1>1, <1>3, <2>1, ZmqHandled, Zenon
  <2>3. FilesInv(q)
    BY <1>1, <2>2, Zenon DEF SameFiles, FilesInv
  <2>4. QED
    BY <2>2, <2>3, Zenon DEF OutInv
<1>4. CASE o.kind = "gre"
  <2>1. q \in GreSend(o, p)
    BY <1>4, Zenon DEF OutputSend
  <2>2. QED
    BY <1>1, <1>2, <1>4, <2>1, GreHandled, Zenon
<1>5. CASE o.kind = "file"
  <2>1. q \in Take(o, p)
    BY <1>5, Zenon DEF OutputSend, FileWrite
  <2>2. QED
    BY <1>1, <1>2, <1>5, <2>1, TakeHandled, Zenon
<1>6. CASE o.kind = "null"
  <2>1. q \in Take(o, p)
    BY <1>6, Zenon DEF OutputSend, NullSend
  <2>2. QED
    BY <1>1, <1>2, <1>6, <2>1, TakeHandled, Zenon
<1>7. CASE o.kind = "rotating_file"
  <2>1. q \in RotatingWrite(o, p, now)
    BY <1>7, Zenon DEF OutputSend
  <2>2. Handled(o, q, n, p.ts) /\ FilesInv(q)
    BY <1>1, <2>1, RotatingHandled, Zenon
  <2>3. QED
    BY <1>7, <2>2, HandledKeeps, Zenon
<1>8. o.kind \in {"zmq", "gre", "file", "null", "rotating_file"}
    BY <1>1, Zenon DEF OutRec, Kinds
<1>9. QED
    BY <1>3, <1>4, <1>5, <1>6, <1>7, <1>8, Zenon

(***************************************************************************)
(* What only changes the batch keeps the rest.                             *)
(***************************************************************************)
LEMMA BatchKeeps ==
    ASSUME NEW o, NEW n, NEW t \in Nat, NEW m, OutInv(o, n, t, m), NEW ts \in Nat, t <= ts, NEW q,
           SameButBatch(o, q), CountsInv(q, n), BatchInv(q), TimeInv(q, ts, m)
    PROVE  OutInv(q, n, ts, m)
<1>1. q \in OutRec /\ SameRate(o, q) /\ SameFiles(o, q) /\ RateInv(o, t) /\ FilesInv(o) /\ o \in OutRec
    BY Zenon DEF SameButBatch, OutInv
<1>2. RateInv(o, ts)
    BY <1>1, SelfAdmits, Zenon DEF Admits
<1>3. RateInv(q, ts)
    BY <1>1, <1>2, Zenon DEF SameRate, RateInv
<1>4. FilesInv(q)
    BY <1>1, Zenon DEF SameFiles, FilesInv
<1>5. QED
    BY <1>1, <1>3, <1>4, Zenon DEF OutInv

(***************************************************************************)
(* A poll that finds no packet.                                            *)
(***************************************************************************)
LEMMA HeartbeatStep ==
    ASSUME IInv, NEW t \in at .. now, Heartbeat(t)
    PROVE  /\ now' = now /\ given' = given /\ kernel' = kernel /\ at' = t /\ idle' = TRUE
           /\ OutInv(out', given, t, now) /\ (out'.kind = "zmq" => IdleInv(out', t))
<1>1. now' = now /\ given' = given /\ kernel' = kernel /\ at' = t /\ idle' = TRUE
    BY Zenon DEF Heartbeat
<1>2. t \in Nat /\ at \in Nat /\ now \in Nat /\ given \in Nat /\ at <= t /\ t <= now
    BY DEF IInv, TimesInv
<1>3. OutInv(out, given, at, now)
    BY Zenon DEF IInv
<1>4. /\ out \in OutRec /\ CountsInv(out, given) /\ BatchInv(out) /\ TimeInv(out, at, now)
    BY <1>3, Zenon DEF OutInv
<1>5. CASE out.kind = "zmq"
  <2>1. PICK q \in ZmqHeartbeat(out, t, now) : q = out'
    BY <1>5, Zenon DEF Heartbeat, OutputHeartbeat
  <2>2. SameButBatch(out, q) /\ CountsInv(q, given) /\ BatchInv(q) /\ TimeInv(q, t, now) /\ IdleInv(q, t)
    BY <1>2, <1>4, <2>1, HeartbeatFacts, Zenon
  <2>3. OutInv(q, given, t, now)
    BY <1>2, <1>3, <2>2, BatchKeeps, Zenon
  <2>4. QED
    BY <1>1, <2>1, <2>2, <2>3, Zenon
<1>6. CASE out.kind # "zmq"
  <2>1. out' = out
    BY <1>6, Zenon DEF Heartbeat, OutputHeartbeat
  <2>2. out.batch.num = 0
    BY <1>4, <1>6, Zenon DEF BatchInv
  <2>3. TimeInv(out, t, now)
    BY <1>4, <2>2 DEF TimeInv
  <2>4. SameButBatch(out, out)
    BY <1>4, Zenon DEF SameButBatch, SameSetup, SameRate, SameFiles
  <2>5. OutInv(out, given, t, now)
    BY <1>2, <1>3, <1>4, <2>3, <2>4, BatchKeeps
  <2>6. QED
    BY <1>1, <1>6, <2>1, <2>5, Zenon
<1>7. QED
    BY <1>5, <1>6, Zenon

(***************************************************************************)
(* A new output.                                                           *)
(***************************************************************************)
LEMMA InitIInv == Init => IInv
<1> SUFFICES ASSUME Init PROVE IInv
    BY Zenon
<1>1. PICK s \in Setups : cap = NewCapturer(s) /\ out = NewOutput(s, now)
    BY Zenon DEF Init
<1>2. /\ s.capturer \in {"libpcap", "pcap_file"} /\ s.stats \in BOOLEAN /\ s.kind \in Kinds
      /\ s.slice \in Nat /\ s.rate \in Nat /\ s.every \in Nat
    BY <1>1, PathAssumption, Zenon DEF Kinds
<1>3. TimesInv
  <2>1. now = TicksPerSec /\ at = now /\ given = 0 /\ kernel = 0
    BY Zenon DEF Init
  <2>2. idle \in BOOLEAN
    BY Zenon DEF Init
  <2>3. now \in Nat /\ at \in Nat /\ TicksPerSec <= at /\ at <= now /\ given \in Nat /\ kernel \in Nat
    BY <2>1, Sizes
  <2>4. QED
    BY <2>2, <2>3, Zenon DEF TimesInv
<1>4. CapInv(cap, kernel)
  <2>1. cap = [kind |-> s.capturer, stats |-> s.stats, eof |-> FALSE, started |-> FALSE, prev |-> 0,
               prevTime |-> 0, base |-> 0, drops |-> ZeroCounter, packets |-> ZeroCounter,
               bytes |-> ZeroCounter]
    BY <1>1, Zenon DEF NewCapturer
  <2>2. cap \in CapRec /\ ~cap.started /\ cap.drops = ZeroCounter
    BY <1>2, <2>1, ValueFacts, Zenon DEF CapRec
  <2>3. QED
    BY <2>2, ValueFacts, Zenon DEF CapInv
<1>5. /\ out.kind = s.kind /\ out.open = TRUE /\ out.bucket = NewBucket(s.rate) /\ out.admitted = <<>>
      /\ out.stats = NewStats /\ out.sink = [packets |-> 0, bytes |-> 0, heartbeats |-> 0]
      /\ out.batch = EmptyBatch /\ out.lastPkt = now /\ out.heard = now
      /\ out.dumper = FALSE /\ out.dumperError = FALSE /\ out.files = <<>>
    BY <1>1, Zenon DEF NewOutput
<1>6. NewStats \in [Fates -> StatRec] /\ \A f \in Fates : PacketsOf(out, f) = 0 /\ BytesOf(out, f) = 0
  <2>1. [packets |-> ZeroCounter, bytes |-> ZeroCounter] \in StatRec
    BY ValueFacts, Zenon DEF StatRec
  <2>2. NewStats \in [Fates -> StatRec]
    BY <2>1, Zenon DEF NewStats
  <2>3. \A f \in Fates : NewStats[f].packets = ZeroCounter /\ NewStats[f].bytes = ZeroCounter
    BY Zenon DEF NewStats
  <2>4. QED
    BY <1>5, <2>2, <2>3, ValueFacts, Zenon DEF PacketsOf, BytesOf
<1>7. NewBucket(s.rate) \in BucketRec /\ out.bucket.tokens = s.rate /\ out.bucket.rate = s.rate /\ out.bucket.last = 0
    BY <1>2, <1>5 DEF NewBucket, BucketRec
<1>8. out \in OutRec
  <2>1. /\ out.sink \in HeldRec /\ now \in Nat /\ <<>> \in Seq(AdmittedRec) /\ <<>> \in Seq(FileRec)
        /\ EmptyBatch \in BatchRec
    BY <1>3, <1>5, EmptyFacts DEF HeldRec, TimesInv
  <2>2. [packets |-> 0, bytes |-> 0, heartbeats |-> 0] \in HeldRec
    BY Zenon DEF HeldRec
  <2>3. QED
    BY <1>1, <1>2, <1>6, <1>7, <2>1, <2>2, Zenon DEF NewOutput, OutRec
<1>9. CountsInv(out, given)
  <2>1. /\ PacketsOf(out, "fwd") = 0 /\ BytesOf(out, "fwd") = 0 /\ PacketsOf(out, "heartbeat") = 0
        /\ DroppedBy(out) = 0
    BY <1>6 DEF Fates, DroppedBy
  <2>2. out.sink.packets = 0 /\ out.sink.bytes = 0 /\ out.sink.heartbeats = 0 /\ given = 0
    BY <1>5 DEF Init
  <2>3. /\ out.batch.num = 0 /\ out.batch.beats = 0 /\ out.batch.bytes = 0
        /\ out.batch.held.packets = 0 /\ out.batch.held.heartbeats = 0 /\ out.batch.held.bytes = 0
    BY <1>5, EmptyFacts, Zenon
  <2>4. QED
    BY <2>1, <2>2, <2>3 DEF CountsInv
<1>10. BatchInv(out)
    BY <1>5, EmptyFacts, Zenon DEF BatchInv
<1>11. TimeInv(out, at, now)
    BY <1>3, <1>5, EmptyFacts DEF TimeInv, TimesInv
<1>12. RateInv(out, at)
  <2>1. DOMAIN <<>> = {}
    OBVIOUS
  <2>2. s.rate <= s.rate /\ 0 <= at
    BY <1>2, <1>3 DEF TimesInv
  <2>3. QED
    BY <1>5, <1>7, <2>1, <2>2, Zenon DEF RateInv
<1>13. FilesInv(out)
  <2>1. DOMAIN out.files = {}
    <3>1. DOMAIN <<>> = {}
      OBVIOUS
    <3>2. QED
      BY <1>5, <3>1, Zenon
  <2>2. QED
    BY <1>5, <2>1, Zenon DEF FilesInv, Spaced
<1>14. idle = FALSE
    BY Zenon DEF Init
<1>15. QED
    BY <1>3, <1>4, <1>8, <1>9, <1>10, <1>11, <1>12, <1>13, <1>14, Zenon DEF IInv, OutInv


(***************************************************************************)
(* The capturer's counters.                                                *)
(***************************************************************************)
LEMMA CapturerKeeps ==
    ASSUME NEW k, CapInv(cap, k), NEW len \in Nat, NEW c,
           c = [cap EXCEPT !.packets = Add(@, 1), !.bytes = Add(@, len)]
    PROVE  CapInv(c, k)
<1>1. cap \in CapRec /\ cap.packets \in Counter /\ cap.bytes \in Counter
    BY Zenon DEF CapInv, CapRec
<1>2. PICK x \in Counter, y \in Counter : x = Add(cap.packets, 1) /\ y = Add(cap.bytes, len)
    BY <1>1, AddIsExact, Zenon
<1>3. c = [cap EXCEPT !.packets = x, !.bytes = y]
    BY <1>2, Zenon
<1>4. c \in CapRec /\ c.started = cap.started /\ c.drops = cap.drops /\ c.prev = cap.prev /\ c.base = cap.base
    BY <1>1, <1>3 DEF CapRec
<1>5. QED
    BY <1>4, Zenon DEF CapInv, Diff

(***************************************************************************)
(* Every step keeps the invariant.                                         *)
(***************************************************************************)
LEMMA NextIInv == IInv /\ [Next]_vars => IInv'
<1> SUFFICES ASSUME IInv, [Next]_vars PROVE IInv'
    BY Zenon
<1>1. /\ now \in Nat /\ at \in Nat /\ TicksPerSec <= at /\ at <= now
      /\ given \in Nat /\ kernel \in Nat
    BY Zenon DEF IInv, TimesInv
<1>2. idle \in BOOLEAN
    BY Zenon DEF IInv, TimesInv
<1>3. CapInv(cap, kernel) /\ OutInv(out, given, at, now) /\ (out.kind = "zmq" /\ idle => IdleInv(out, at))
    BY Zenon DEF IInv
<1>4. ASSUME NEW p \in Packets, NEW ts \in PollTimes, CapturePacket(p, ts) PROVE IInv'
  <2>1. ts \in Nat /\ at <= ts /\ ts <= now /\ Sec(ts) \in Nat
    BY <1>1, SecFacts DEF PollTimes
  <2>2. p.caplen \in Nat /\ p.tags \in Nat
    BY PathAssumption, Zenon
  <2>3. PICK c : c = [cap EXCEPT !.packets = Add(@, 1), !.bytes = Add(@, p.caplen)]
    BY Zenon
  <2>4. CapInv(c, kernel)
    BY <1>3, <2>2, <2>3, CapturerKeeps, Zenon
  <2>5. PICK d \in DropStat(c, Sec(ts)) : d = cap'
    BY <1>4, <2>3, Zenon DEF CapturePacket
  <2>6. CapInv(d, kernel)
    BY <1>1, <2>1, <2>4, <2>5, DropStatFacts, Zenon
  <2>7. now' = now /\ kernel' = kernel /\ out.open
    BY <1>4, Zenon DEF CapturePacket, Polling
  <2>8. CapInv(cap', kernel')
    BY <2>5, <2>6, <2>7, Zenon
  <2>9. CASE p.caplen < EtherLen
    <3>1. out' = out /\ at' = at /\ idle' = idle /\ given' = given
      BY <1>4, <2>9, Zenon DEF CapturePacket
    <3>2. QED
      BY <1>3, <2>7, <2>8, <3>1, Zenon DEF IInv, TimesInv
  <2>10. CASE ~(p.caplen < EtherLen)
    <3>1. PICK k : k = [caplen |-> p.caplen, tags |-> p.tags, dir |-> p.dir, ts |-> ts]
      BY Zenon
    <3>2. k.caplen = p.caplen /\ k.tags = p.tags /\ k.ts = ts
      BY <3>1, Zenon
    <3>3. out' \in OutputSend(out, k) /\ at' = ts /\ idle' = FALSE /\ given' = given + 1
      BY <1>4, <2>10, <3>1, Zenon DEF CapturePacket
    <3>4. PICK q \in OutputSend(out, k) : q = out'
      BY <3>3, Zenon
    <3>5. ts >= TicksPerSec /\ k.ts >= TicksPerSec /\ k.ts <= now /\ at <= k.ts /\ k.ts \in Nat
      BY <1>1, <2>1, <3>2, Sizes
    <3>6. k.caplen \in Nat /\ k.tags \in Nat
      BY <2>2, <3>2, Zenon
    <3>7. OutInv(q, given + 1, k.ts, now)
      BY <1>1, <1>3, <2>7, <3>4, <3>5, <3>6, SendKeeps
    <3>8. OutInv(out', given', at', now')
      BY <2>7, <3>2, <3>3, <3>4, <3>7, Zenon
    <3>9. idle' \in BOOLEAN /\ ~idle'
      BY <3>3, Zenon
    <3>10. /\ now' \in Nat /\ at' \in Nat /\ TicksPerSec <= at' /\ at' <= now'
           /\ given' \in Nat /\ kernel' \in Nat
      BY <1>1, <2>1, <2>7, <3>3, <3>5
    <3>11. QED
      BY <2>8, <3>8, <3>9, <3>10, Zenon DEF IInv, TimesInv
  <2>11. QED
    BY <2>9, <2>10, Zenon
<1>5. ASSUME NEW t \in PollTimes, Heartbeat(t), CapInv(cap', kernel) PROVE IInv'
  <2>1. t \in at .. now
    BY Zenon DEF PollTimes
  <2>2. /\ now' = now /\ given' = given /\ kernel' = kernel /\ at' = t /\ idle' = TRUE
        /\ OutInv(out', given, t, now) /\ (out'.kind = "zmq" => IdleInv(out', t))
    BY <1>5, <2>1, HeartbeatStep, Zenon
  <2>3. /\ now' \in Nat /\ at' \in Nat /\ TicksPerSec <= at' /\ at' <= now'
        /\ given' \in Nat /\ kernel' \in Nat
    BY <1>1, <2>1, <2>2, Sizes
  <2>4. idle' \in BOOLEAN
    BY <2>2, Zenon
  <2>5. CapInv(cap', kernel') /\ OutInv(out', given', at', now') /\ (out'.kind = "zmq" => IdleInv(out', at'))
    BY <1>5, <2>2, Zenon
  <2>6. QED
    BY <2>3, <2>4, <2>5, Zenon DEF IInv, TimesInv
<1>6. ASSUME NEW t \in PollTimes, CaptureNone(t) PROVE IInv'
  <2>1. Sec(t) \in Nat
    BY <1>1, SecFacts DEF PollTimes
  <2>2. PICK d \in DropStat(cap, Sec(t)) : d = cap'
    BY <1>6, Zenon DEF CaptureNone
  <2>3. CapInv(d, kernel)
    BY <1>1, <1>3, <2>1, <2>2, DropStatFacts, Zenon
  <2>4. QED
    BY <1>5, <1>6, <2>2, <2>3, Zenon DEF CaptureNone
<1>7. ASSUME NEW t \in PollTimes, EndOfFile(t) PROVE IInv'
  <2>1. cap' = [cap EXCEPT !.eof = TRUE] /\ cap \in CapRec
    BY <1>3, <1>7, Zenon DEF EndOfFile, CapInv
  <2>2. /\ cap' \in CapRec /\ cap'.started = cap.started /\ cap'.drops = cap.drops
        /\ cap'.prev = cap.prev /\ cap'.base = cap.base
    BY <2>1, Zenon DEF CapRec
  <2>3. CapInv(cap', kernel)
    BY <1>3, <2>2, Zenon DEF CapInv, Diff
  <2>4. QED
    BY <1>5, <1>7, <2>3, Zenon DEF EndOfFile
<1>8. CASE CaptureError
  <2>1. Sec(now) \in Nat
    BY <1>1, SecFacts, Zenon
  <2>2. PICK d \in DropStat(cap, Sec(now)) : d = cap'
    BY <1>8, Zenon DEF CaptureError
  <2>3. CapInv(d, kernel)
    BY <1>1, <1>3, <2>1, <2>2, DropStatFacts, Zenon
  <2>4. now' = now /\ out' = out /\ at' = at /\ idle' = idle /\ given' = given /\ kernel' = kernel
    BY <1>8, Zenon DEF CaptureError
  <2>5. QED
    BY <1>3, <2>2, <2>3, <2>4, Zenon DEF IInv, TimesInv
<1>9. CASE Destroy
  <2>1. now' = now /\ cap' = cap /\ at' = at /\ idle' = idle /\ given' = given /\ kernel' = kernel
    BY <1>9, Zenon DEF Destroy
  <2>2. /\ out \in OutRec /\ CountsInv(out, given) /\ BatchInv(out) /\ TimeInv(out, at, now)
        /\ RateInv(out, at) /\ FilesInv(out)
    BY <1>3, Zenon DEF OutInv
  <2>3. PICK r : /\ r \in IF out.kind = "zmq" THEN ZmqDestroy(out, now) ELSE {out}
                 /\ out' = [r EXCEPT !.open = FALSE]
    BY <1>9, Zenon DEF Destroy, OutputDestroy
  <2>4. /\ SameButBatch(out, r) /\ CountsInv(r, given) /\ TimeInv(r, at, now) /\ r.batch.num = 0
        /\ BatchInv(r)
    <3>1. CASE out.kind = "zmq"
      BY <1>1, <2>2, <2>3, <3>1, DestroyFacts, Zenon
    <3>2. CASE out.kind # "zmq"
      <4>1. r = out
        BY <2>3, <3>2, Zenon
      <4>2. out.batch.num = 0
        BY <2>2, <3>2, Zenon DEF BatchInv
      <4>3. SameButBatch(out, out)
        BY <2>2, Zenon DEF SameButBatch, SameSetup, SameRate, SameFiles
      <4>4. QED
        BY <2>2, <4>1, <4>2, <4>3, Zenon
    <3>3. QED
      BY <3>1, <3>2, Zenon
  <2>5. OutInv(r, given, at, now)
    BY <1>1, <1>3, <2>4, BatchKeeps
  <2>6. r \in OutRec /\ RateInv(r, at) /\ FilesInv(r)
    BY <2>5, Zenon DEF OutInv
  <2>7. PICK q : q = [r EXCEPT !.open = FALSE] /\ q = out'
    BY <2>3, Zenon
  <2>8. /\ q \in OutRec /\ SameCounts(r, q) /\ SameBatch(r, q) /\ SameRate(r, q) /\ SameFiles(r, q)
        /\ q.kind = r.kind /\ q.every = r.every
    BY <2>6, <2>7 DEF OutRec, SameCounts, SameBatch, SameRate, SameFiles
  <2>9. q.batch = r.batch /\ q.heard = r.heard /\ q.lastPkt = r.lastPkt
    BY <2>8, Zenon DEF SameBatch
  <2>10. CountsInv(q, given)
    BY <2>4, <2>8, <2>9, CountsKept, Zenon
  <2>11. BatchInv(q)
    BY <2>4, <2>9, Zenon DEF BatchInv
  <2>12. TimeInv(q, at, now)
    <3>1. r.batch.num = 0 /\ r.lastPkt <= r.heard /\ r.lastPkt <= now /\ r.heard <= now
      BY <2>4, Zenon DEF TimeInv
    <3>2. ~(0 > 0)
      OBVIOUS
    <3>3. QED
      BY <2>9, <3>1, <3>2, Zenon DEF TimeInv
  <2>13. RateInv(q, at)
    BY <2>6, <2>8, Zenon DEF SameRate, RateInv
  <2>14. FilesInv(q)
    BY <2>6, <2>8, Zenon DEF SameFiles, FilesInv
  <2>15. OutInv(q, given, at, now)
    BY <2>8, <2>10, <2>11, <2>12, <2>13, <2>14, Zenon DEF OutInv
  <2>16. ASSUME q.kind = "zmq", idle PROVE IdleInv(q, at)
    <3>1. out.kind = "zmq" /\ q.every = out.every /\ IdleInv(out, at)
      BY <1>3, <2>4, <2>8, <2>16, Zenon DEF SameButBatch, SameSetup
    <3>2. r \in ZmqDestroy(out, now)
      BY <2>3, <3>1, Zenon
    <3>3. out.heard \in Nat /\ q.every \in Nat
      BY <2>2, <2>8, Zenon DEF OutRec
    <3>4. CASE out.batch.num > 0
      <4>1. r \in Flush(out, now)
        BY <3>2, <3>4, Zenon DEF ZmqDestroy
      <4>2. r.heard = now
        BY <1>1, <2>2, <4>1, FlushFacts
      <4>3. QED
        BY <1>1, <2>9, <3>3, <4>2 DEF IdleInv
    <3>5. CASE ~(out.batch.num > 0)
      <4>1. r = out
        BY <3>2, <3>5, Zenon DEF ZmqDestroy
      <4>2. QED
        BY <2>9, <3>1, <4>1, Zenon DEF IdleInv
    <3>6. QED
      BY <3>4, <3>5, Zenon
  <2>17. QED
    BY <1>3, <2>1, <2>7, <2>15, <2>16, Zenon DEF IInv, TimesInv
<1>10. CASE Tick
  <2>1. /\ now' = now + 1 /\ cap' = cap /\ out' = out /\ at' = at /\ idle' = idle /\ given' = given
        /\ kernel' = kernel
    BY <1>10, Zenon DEF Tick
  <2>2. now' \in Nat /\ at' <= now'
    BY <1>1, <2>1
  <2>3. TimeInv(out, at, now) /\ out.lastPkt \in Nat /\ out.heard \in Nat
    BY <1>3, Zenon DEF OutInv, OutRec
  <2>4. TimeInv(out, at, now + 1)
    BY <1>1, <2>3 DEF TimeInv
  <2>6. OutInv(out', given', at', now')
    BY <1>3, <2>1, <2>4, Zenon DEF OutInv
  <2>7. QED
    BY <1>1, <1>2, <1>3, <2>1, <2>2, <2>6, Zenon DEF IInv, TimesInv
<1>11. ASSUME NEW n \in 1 .. MaxDrops, KernelDrop(n) PROVE IInv'
  <2>1. /\ kernel' = kernel + n /\ now' = now /\ cap' = cap /\ out' = out /\ at' = at /\ idle' = idle
        /\ given' = given /\ (cap.started => DropDiff(cap) + n < Wrap)
    BY <1>11, Zenon DEF KernelDrop
  <2>2. n \in Nat /\ kernel' \in Nat
    BY <1>1, <2>1
  <2>3. cap \in CapRec /\ cap.prev \in Nat /\ cap.base \in Nat /\ Value(cap.drops) \in Nat
    BY <1>3, ValueFacts, Zenon DEF CapInv, CapRec
  <2>3a. PICK m \in Nat : m = kernel + n /\ m = kernel'
    BY <2>1, <2>2, Zenon
  <2>4. ASSUME cap.started PROVE Value(cap.drops) + Diff(m, cap) = m - cap.base
    <3>1. PICK w \in Nat \ {0}, p \in Nat, k \in Nat, j \in Nat :
              w = Wrap /\ p = cap.prev /\ k = kernel /\ j = n
      BY <1>1, <2>2, <2>3, PathAssumption, Zenon
    <3>2. PICK d : Behind(w, k, p, d)
      BY Zenon DEF Behind
    <3>3. d + j < w
      BY <2>1, <2>4, <3>1, <3>2, Zenon DEF DropDiff, Behind
    <3>4. d \in Nat /\ Behind(w, k + j, p, d + j)
      BY <3>1, <3>2, <3>3, DiffGrows, Zenon
    <3>5. Value(cap.drops) + d = kernel - cap.base
      BY <1>3, <2>4, <3>1, <3>2, Zenon DEF CapInv, Diff, Behind
    <3>6. Diff(m, cap) = d + j
      BY <2>3a, <3>1, <3>4, Zenon DEF Diff, Behind
    <3>7. PICK v \in Nat, b \in Nat : v = Value(cap.drops) /\ b = cap.base
      BY <2>3, Zenon
    <3>8. v + d = k - b => v + (d + j) = k + j - b
      BY <3>1, <3>4, <3>7
    <3>9. m = k + j /\ v + d = k - b
      BY <2>3a, <3>1, <3>5, <3>7, Zenon
    <3>10. QED
      BY <3>6, <3>7, <3>8, <3>9
  <2>5. CapInv(cap', kernel')
    <3>1. cap \in CapRec /\ (~cap.started => Value(cap.drops) = 0)
      BY <1>3, Zenon DEF CapInv
    <3>2. CapInv(cap, m)
      BY <2>4, <3>1, Zenon DEF CapInv
    <3>3. QED
      BY <2>1, <2>3a, <3>2, Zenon
  <2>6. QED
    BY <1>3, <2>1, <2>2, <2>5, Zenon DEF IInv, TimesInv
<1>12. CASE UNCHANGED vars
  <2>1. /\ now' = now /\ cap' = cap /\ out' = out /\ at' = at /\ idle' = idle /\ given' = given
        /\ kernel' = kernel
    BY <1>12, Zenon DEF vars
  <2>2. QED
    BY <2>1, Zenon DEF IInv, TimesInv
<1>13. QED
    BY <1>4, <1>6, <1>7, <1>8, <1>9, <1>10, <1>11, <1>12, Zenon DEF Next, Terminated

(***************************************************************************)
(* The data path keeps its invariant: counters, batch, times, rate and     *)
(* files, in every reachable state.                                        *)
(***************************************************************************)
THEOREM PathInvariant == Spec => []IInv
BY InitIInv, NextIInv, PTL DEF Spec

(***************************************************************************)
(* The batch stays within its buffer and its number of records, the bucket *)
(* within its capacity, and the counters are counters.                     *)
(***************************************************************************)
THEOREM PathTypeOK == Spec => []TypeOK
<1>1. IInv => TypeOK
  <2> SUFFICES ASSUME IInv PROVE TypeOK
    BY Zenon
  <2>1. cap \in CapRec /\ out \in OutRec /\ CountsInv(out, given) /\ BatchInv(out) /\ RateInv(out, at)
    BY Zenon DEF IInv, OutInv, CapInv
  <2>2. out.bucket.tokens \in 0 .. out.bucket.rate
    <3>1. PICK k \in Nat, j \in Nat : k = out.bucket.tokens /\ j = out.bucket.rate
      BY <2>1, Zenon DEF OutRec, BucketRec
    <3>2. k <= j
      BY <2>1, <3>1, Zenon DEF RateInv
    <3>3. k \in 0 .. j
      BY <3>1, <3>2
    <3>4. QED
      BY <3>1, <3>3, Zenon
  <2>3. /\ out.batch.pos \in BatchHdr .. MaxBatch /\ out.batch.num <= MaxNum
        /\ out.batch.num = out.batch.held.packets + out.batch.held.heartbeats
    BY <2>1, Zenon DEF BatchInv, CountsInv
  <2>4. \A f \in Fates : out.stats[f].packets \in Counter /\ out.stats[f].bytes \in Counter
    BY <2>1, Zenon DEF OutRec, StatRec
  <2>5. cap.drops \in Counter /\ cap.packets \in Counter
    BY <2>1, Zenon DEF CapRec
  <2>6. QED
    BY <2>2, <2>3, <2>4, <2>5, Zenon DEF TypeOK
<1>2. QED
    BY PathInvariant, <1>1, PTL

(***************************************************************************)
(* No packet is lost unaccounted or counted twice, whichever sends fail;   *)
(* the forward counters are what the sink took; and the drops are the      *)
(* kernel's, over every wrap of its counter.                               *)
(***************************************************************************)
THEOREM PathAccounted == Spec => []Accounted
<1>1. IInv => Accounted
  <2> SUFFICES ASSUME IInv PROVE Accounted
    OBVIOUS
  <2>1. CapInv(cap, kernel) /\ CountsInv(out, given) /\ BatchInv(out)
    BY Zenon DEF IInv, OutInv
  <2>2. cap.started => Value(cap.drops) + DropDiff(cap) = kernel - cap.base
    BY <2>1, Zenon DEF CapInv, Diff, DropDiff
  <2>3. ~out.open => out.batch.num = 0
    BY <2>1, Zenon DEF BatchInv
  <2>4. QED
    BY <2>1, <2>2, <2>3, Zenon
       DEF Accounted, CountsInv, DroppedBy, PacketsOf, BytesOf, CountOf, Dropped
<1>2. QED
    BY PathInvariant, <1>1, PTL

(***************************************************************************)
(* The rate limit holds over every window of time, for every rate and      *)
(* every sequence of packets and times.                                    *)
(***************************************************************************)
THEOREM PathRateBounded == Spec => []RateBounded
<1>1. IInv => RateBounded
    BY Zenon DEF IInv, OutInv, RateInv, Within, RateBounded
<1>2. QED
    BY PathInvariant, <1>1, PTL

(***************************************************************************)
(* No batch lingers, and no receiver is left in silence.                   *)
(***************************************************************************)
THEOREM PathTimely == Spec => []Timely
<1>1. IInv => Timely
  <2> SUFFICES ASSUME IInv, out.kind = "zmq"
               PROVE  /\ out.batch.num > 0 => Sec(at) - out.batch.first <= FlushDur
                      /\ idle /\ out.every > 0 /\ out.batch.num = 0 => at - out.heard < out.every
    BY Zenon DEF Timely
  <2>1. TimeInv(out, at, now) /\ out \in OutRec /\ at \in Nat
    BY Zenon DEF IInv, OutInv, TimesInv
  <2>2. Sec(at) \in Nat /\ out.batch.first \in Nat /\ FlushDur \in Nat
    BY <2>1, SecFacts, Sizes, Zenon DEF OutRec, BatchRec
  <2>3. out.batch.num > 0 => Sec(at) - out.batch.first <= FlushDur
    BY <2>1, <2>2 DEF TimeInv
  <2>4. idle /\ out.every > 0 /\ out.batch.num = 0 => at - out.heard < out.every
    BY Zenon DEF IInv, IdleInv
  <2>5. QED
    BY <2>3, <2>4, Zenon
<1>2. QED
    BY PathInvariant, <1>1, PTL

(***************************************************************************)
(* A rotated file holds packets of its own interval only, and no two files *)
(* have the same name.                                                     *)
(***************************************************************************)
THEOREM PathFileWindow == Spec => []FileWindow
<1>1. IInv => FileWindow
    BY Zenon DEF IInv, OutInv, FilesInv, Spaced, FileWindow
<1>2. QED
    BY PathInvariant, <1>1, PTL
=============================================================================
