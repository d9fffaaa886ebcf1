---------------------------- MODULE DeployProofs ----------------------------
(***************************************************************************)
(* Proofs about deploying strategies.                                      *)
(***************************************************************************)
EXTENDS Deploy, TLAPS

(***************************************************************************)
(* Where a constructor stands: the resources of its part that are held,    *)
(* and the namespace.  Taken is a step that succeeds.  A step that can     *)
(* fail must give back everything its part holds.                          *)
(***************************************************************************)
State(res, n) == [res |-> res, ns |-> n]

Empty == State({}, "own")

Taken(step, a) ==
    State((a.res \cup step.take) \ step.drop,
          CASE step.do = "enter" -> "target" [] step.do = "leave" -> "own" [] OTHER -> a.ns)

Undone(step, a) == step.do \in {"done", "uuid", "leave"} \/ a.res \subseteq step.undo

(***************************************************************************)
(* H is what the steps of s go through, from a to b.                       *)
(***************************************************************************)
Trace(s, a, b, H) ==
    /\ H[1] = a
    /\ H[Len(s) + 1] = b
    /\ \A i \in 1 .. Len(s) : Undone(s[i], H[i]) /\ H[i + 1] = Taken(s[i], H[i])

IsSeq(s) == \E S : s \in Seq(S)

Leads(s, a, b) == IsSeq(s) /\ \E H : Trace(s, a, b, H)

(***************************************************************************)
(* No step.                                                                *)
(***************************************************************************)
LEMMA LeadsNone ==
    ASSUME NEW a
    PROVE  Leads(<<>>, a, a)
<1>1. Trace(<<>>, a, a, <<a>>)
  BY DEF Trace
<1>2. <<>> \in Seq({})
  OBVIOUS
<1> QED BY <1>1, <1>2 DEF Leads, IsSeq

(***************************************************************************)
(* One step.                                                               *)
(***************************************************************************)
LEMMA LeadsOne ==
    ASSUME NEW x, NEW a, NEW b, Undone(x, a), b = Taken(x, a)
    PROVE  Leads(<<x>>, a, b)
<1>1. Trace(<<x>>, a, b, <<a, b>>)
  BY DEF Trace
<1>2. <<x>> \in Seq({x})
  OBVIOUS
<1> QED BY <1>1, <1>2, Zenon DEF Leads, IsSeq

(***************************************************************************)
(* A step that is taken on a condition.                                    *)
(***************************************************************************)
LEMMA LeadsWhen ==
    ASSUME NEW cond \in BOOLEAN, NEW x, NEW a, NEW b,
           cond => Undone(x, a) /\ b = Taken(x, a),
           ~cond => b = a
    PROVE  Leads(When(cond, x), a, b)
BY LeadsNone, LeadsOne DEF When

(***************************************************************************)
(* Steps after steps.                                                      *)
(***************************************************************************)
LEMMA LeadsConcat ==
    ASSUME NEW s, NEW t, NEW a, NEW b, NEW c, Leads(s, a, b), Leads(t, b, c)
    PROVE  Leads(s \o t, a, c)
<1>1. PICK S : s \in Seq(S) /\ t \in Seq(S) /\ s \o t \in Seq(S)
  <2>1. PICK A, B : s \in Seq(A) /\ t \in Seq(B)
    BY Zenon DEF Leads, IsSeq
  <2>2. s \in Seq(A \cup B) /\ t \in Seq(A \cup B)
    BY <2>1
  <2>3. s \o t \in Seq(A \cup B)
    BY <2>2
  <2> QED BY <2>2, <2>3
<1>2. PICK G : Trace(s, a, b, G)
  BY Zenon DEF Leads
<1>3. PICK H : Trace(t, b, c, H)
  BY Zenon DEF Leads
<1>4. PICK m \in Nat, n \in Nat : m = Len(s) /\ n = Len(t)
  BY <1>1
<1>5. /\ Len(s \o t) = m + n
      /\ \A i \in 1 .. m : (s \o t)[i] = s[i]
      /\ \A i \in m + 1 .. m + n : (s \o t)[i] = t[i - m]
  BY <1>1, <1>4
<1> DEFINE K == [i \in 1 .. m + n + 1 |-> IF i <= m THEN G[i] ELSE H[i - m]]
<1>6. G[1] = a /\ G[m + 1] = b /\ H[1] = b /\ H[n + 1] = c
  BY <1>2, <1>3, <1>4 DEF Trace
<1>7. K[1] = a
  <2>1. CASE m = 0
    BY <1>6, <2>1
  <2>2. CASE m > 0
    BY <1>6, <2>2
  <2> QED BY <2>1, <2>2
<1>8. K[m + n + 1] = c
  <2>1. m + n + 1 \in 1 .. m + n + 1 /\ ~(m + n + 1 <= m) /\ (m + n + 1) - m = n + 1
    OBVIOUS
  <2> QED BY <1>6, <2>1, Zenon
<1>9. ASSUME NEW i \in 1 .. m + n
      PROVE  Undone((s \o t)[i], K[i]) /\ K[i + 1] = Taken((s \o t)[i], K[i])
  <2>1. CASE i <= m
    <3>1. i \in 1 .. m /\ (s \o t)[i] = s[i] /\ K[i] = G[i]
      BY <1>5, <2>1
    <3>2. K[i + 1] = G[i + 1]
      <4>1. CASE i = m
        BY <1>6, <4>1
      <4>2. CASE i < m
        BY <4>2
      <4> QED BY <2>1, <4>1, <4>2
    <3>3. Undone(s[i], G[i]) /\ G[i + 1] = Taken(s[i], G[i])
      BY <1>2, <1>4, <3>1 DEF Trace
    <3> HIDE DEF K
    <3> QED BY <3>1, <3>2, <3>3
  <2>2. CASE i > m
    <3>1. PICK j \in 1 .. n : j = i - m
      BY <2>2
    <3>2. (s \o t)[i] = t[j]
      BY <1>5, <2>2, <3>1
    <3>3. K[i] = H[j] /\ K[i + 1] = H[j + 1]
      BY <2>2, <3>1
    <3>4. Undone(t[j], H[j]) /\ H[j + 1] = Taken(t[j], H[j])
      BY <1>3, <1>4, <3>1, Zenon DEF Trace
    <3> HIDE DEF K
    <3> QED BY <3>2, <3>3, <3>4
  <2>3. i <= m \/ i > m
    OBVIOUS
  <2> QED BY <2>1, <2>2, <2>3
<1> HIDE DEF K
<1>10. Trace(s \o t, a, c, K)
  BY <1>5, <1>7, <1>8, <1>9 DEF Trace
<1> QED BY <1>1, <1>10, Zenon DEF Leads, IsSeq

(***************************************************************************)
(* Two steps in a row.                                                     *)
(***************************************************************************)
LEMMA LeadsTwo ==
    ASSUME NEW x, NEW y, NEW a, NEW b, NEW c,
           Undone(x, a), b = Taken(x, a), Undone(y, b), c = Taken(y, b)
    PROVE  Leads(<<x, y>>, a, c)
<1>1. Trace(<<x, y>>, a, c, <<a, b, c>>)
  BY DEF Trace
<1>2. <<x, y>> \in Seq({x, y})
  OBVIOUS
<1> QED BY <1>1, <1>2, Zenon DEF Leads, IsSeq

(***************************************************************************)
(* Three steps in a row.                                                   *)
(***************************************************************************)
LEMMA LeadsThree ==
    ASSUME NEW x1, NEW x2, NEW x3,
           NEW a0, NEW a1, NEW a2, NEW a3,
           Undone(x1, a0), a1 = Taken(x1, a0),
           Undone(x2, a1), a2 = Taken(x2, a1),
           Undone(x3, a2), a3 = Taken(x3, a2)
    PROVE  Leads(<<x1, x2, x3>>, a0, a3)
<1>1. Trace(<<x1, x2, x3>>, a0, a3, <<a0, a1, a2, a3>>)
  BY DEF Trace
<1>2. <<x1, x2, x3>> \in Seq({x1, x2, x3})
  OBVIOUS
<1> QED BY <1>1, <1>2 DEF Leads, IsSeq

(***************************************************************************)
(* Four steps in a row.                                                    *)
(***************************************************************************)
LEMMA LeadsFour ==
    ASSUME NEW x1, NEW x2, NEW x3, NEW x4,
           NEW a0, NEW a1, NEW a2, NEW a3, NEW a4,
           Undone(x1, a0), a1 = Taken(x1, a0),
           Undone(x2, a1), a2 = Taken(x2, a1),
           Undone(x3, a2), a3 = Taken(x3, a2),
           Undone(x4, a3), a4 = Taken(x4, a3)
    PROVE  Leads(<<x1, x2, x3, x4>>, a0, a4)
<1>1. Trace(<<x1, x2, x3, x4>>, a0, a4, <<a0, a1, a2, a3, a4>>)
  BY DEF Trace
<1>2. <<x1, x2, x3, x4>> \in Seq({x1, x2, x3, x4})
  OBVIOUS
<1> QED BY <1>1, <1>2 DEF Leads, IsSeq

(***************************************************************************)
(* Seven steps in a row.                                                   *)
(***************************************************************************)
LEMMA LeadsSeven ==
    ASSUME NEW x1, NEW x2, NEW x3, NEW x4, NEW x5, NEW x6, NEW x7,
           NEW a0, NEW a1, NEW a2, NEW a3, NEW a4, NEW a5, NEW a6, NEW a7,
           Undone(x1, a0), a1 = Taken(x1, a0),
           Undone(x2, a1), a2 = Taken(x2, a1),
           Undone(x3, a2), a3 = Taken(x3, a2),
           Undone(x4, a3), a4 = Taken(x4, a3),
           Undone(x5, a4), a5 = Taken(x5, a4),
           Undone(x6, a5), a6 = Taken(x6, a5),
           Undone(x7, a6), a7 = Taken(x7, a6)
    PROVE  Leads(<<x1, x2, x3, x4, x5, x6, x7>>, a0, a7)
<1>1. Trace(<<x1, x2, x3, x4, x5, x6, x7>>, a0, a7, <<a0, a1, a2, a3, a4, a5, a6, a7>>)
  BY DEF Trace
<1>2. <<x1, x2, x3, x4, x5, x6, x7>> \in Seq({x1, x2, x3, x4, x5, x6, x7})
  OBVIOUS
<1> QED BY <1>1, <1>2 DEF Leads, IsSeq

(***************************************************************************)
(* libpcap_capturer_new: with a namespace or without, with a filter or     *)
(* without, a failure gives everything back, and success leaves what       *)
(* libpcap_capturer_destroy frees, in the own namespace.                   *)
(***************************************************************************)
LEMMA LibpcapLeads ==
    ASSUME NEW task
    PROVE  Leads(LibpcapSteps(task), Empty, State(LibpcapDestroy, "own"))
<1> DEFINE netns == task.capturer.netns # ""
           filters == task.capturer.bpf # "" \/ task.excluded # {}
           U == LibpcapUndo
           own == IF netns THEN {"self netns"} ELSE {}
           n == IF netns THEN "target" ELSE "own"
           s1 == <<Step("filter text", {"filter"}, {}, {})>>
           s2 == When(netns, Step("own netns", {"self netns"}, {}, {"filter"}))
           s3 == When(netns, Call("enter", U))
           s4 == <<Step("pattern", {"pattern"}, {}, U), Step("create", {"pcap"}, {}, U),
                   Call("activate", U), Call("nonblock", U)>>
           s5 == When(filters, Call("set filter", U))
           s6 == When(netns, Step("leave", {}, {"self netns"}, {}))
           s7 == <<Step("alloc", {"capturer"}, {}, U), Step("alloc", {"interface"}, {}, U),
                   Step("alloc", {"netns"}, {}, U), Step("done", {}, {"filter"}, {})>>
           b1 == State({"filter"}, "own")
           b2 == State({"filter"} \cup own, "own")
           b3 == State({"filter"} \cup own, n)
           b4 == State({"filter", "pattern", "pcap"} \cup own, n)
           b6 == State({"filter", "pattern", "pcap"}, "own")
           b7 == State(LibpcapDestroy, "own")
<1>1. LibpcapSteps(task) = s1 \o s2 \o s3 \o s4 \o s5 \o s6 \o s7
  BY DEF LibpcapSteps, Call
<1>2. Leads(s1, Empty, b1)
  <2> DEFINE x == Step("filter text", {"filter"}, {}, {})
  <2>1. Undone(x, Empty) /\ b1 = Taken(x, Empty)
    BY DEF Step, Undone, Taken, State, Empty
  <2> QED BY <2>1, LeadsOne, Zenon
<1>3. Leads(s2, b1, b2)
  <2> DEFINE x == Step("own netns", {"self netns"}, {}, {"filter"})
  <2>1. Undone(x, b1) /\ (netns => b2 = Taken(x, b1)) /\ (~netns => b2 = b1)
    BY DEF Step, Undone, Taken, State
  <2> QED BY <2>1, LeadsWhen, Zenon
<1>4. Leads(s3, b2, b3)
  <2> DEFINE x == Call("enter", U)
  <2>1. Undone(x, b2) /\ (netns => b3 = Taken(x, b2)) /\ (~netns => b3 = b2)
    BY DEF Call, Step, Undone, Taken, State, LibpcapUndo
  <2> QED BY <2>1, LeadsWhen
<1>5. Leads(s4, b3, b4)
  <2> DEFINE x1 == Step("pattern", {"pattern"}, {}, U)
             x2 == Step("create", {"pcap"}, {}, U)
             x3 == Call("activate", U)
             x4 == Call("nonblock", U)
             c1 == State({"filter", "pattern"} \cup own, n)
  <2>2. Undone(x1, b3) /\ c1 = Taken(x1, b3)
    BY Zenon DEF Step, Undone, Taken, State, LibpcapUndo
  <2>3. Undone(x2, c1) /\ b4 = Taken(x2, c1)
    BY Zenon DEF Step, Undone, Taken, State, LibpcapUndo
  <2>4. Undone(x3, b4) /\ b4 = Taken(x3, b4) /\ Undone(x4, b4) /\ b4 = Taken(x4, b4)
    BY DEF Call, Step, Undone, Taken, State, LibpcapUndo
  <2> HIDE DEF x1, x2, x3, x4, c1, b3, b4
  <2>5. Leads(<<x1, x2, x3, x4>>, b3, b4)
    BY <2>2, <2>3, <2>4, LeadsFour
  <2> QED BY <2>5 DEF x1, x2, x3, x4
<1>6. Leads(s5, b4, b4)
  <2> DEFINE x == Call("set filter", U)
  <2>1. Undone(x, b4) /\ b4 = Taken(x, b4)
    BY Zenon DEF Call, Step, Undone, Taken, State, LibpcapUndo
  <2> QED BY <2>1, LeadsWhen
<1>7. Leads(s6, b4, b6)
  <2> DEFINE x == Step("leave", {}, {"self netns"}, {})
  <2>1. Undone(x, b4) /\ (netns => b6 = Taken(x, b4)) /\ (~netns => b6 = b4)
    BY Zenon DEF Step, Undone, Taken, State
  <2> QED BY <2>1, LeadsWhen
<1>8. Leads(s7, b6, b7)
  <2> DEFINE x1 == Step("alloc", {"capturer"}, {}, U)
             x2 == Step("alloc", {"interface"}, {}, U)
             x3 == Step("alloc", {"netns"}, {}, U)
             x4 == Step("done", {}, {"filter"}, {})
             c1 == State({"filter", "pattern", "pcap", "capturer"}, "own")
             c2 == State({"filter", "pattern", "pcap", "capturer", "interface"}, "own")
             c3 == State({"filter", "pattern", "pcap", "capturer", "interface", "netns"}, "own")
  <2>2. Undone(x1, b6) /\ c1 = Taken(x1, b6)
    BY Zenon DEF Step, Undone, Taken, State, LibpcapUndo
  <2>3. Undone(x2, c1) /\ c2 = Taken(x2, c1)
    BY Zenon DEF Step, Undone, Taken, State, LibpcapUndo
  <2>4. Undone(x3, c2) /\ c3 = Taken(x3, c2)
    BY Zenon DEF Step, Undone, Taken, State, LibpcapUndo
  <2>5. Undone(x4, c3) /\ b7 = Taken(x4, c3)
    BY DEF Step, Undone, Taken, State, LibpcapDestroy
  <2> HIDE DEF x1, x2, x3, x4, c1, c2, c3, b6, b7
  <2>6. Leads(<<x1, x2, x3, x4>>, b6, b7)
    BY <2>2, <2>3, <2>4, <2>5, LeadsFour
  <2> QED BY <2>6, Zenon DEF x1, x2, x3, x4
<1> HIDE DEF s1, s2, s3, s4, s5, s6, s7, b1, b2, b3, b4, b6
<1>9. Leads(s1 \o s2 \o s3, Empty, b3)
  BY <1>2, <1>3, <1>4, LeadsConcat
<1>10. Leads(s1 \o s2 \o s3 \o s4 \o s5, Empty, b4)
  BY <1>5, <1>6, <1>9, LeadsConcat
<1>11. Leads(s1 \o s2 \o s3 \o s4 \o s5 \o s6 \o s7, Empty, b7)
  BY <1>7, <1>8, <1>10, LeadsConcat
<1> QED BY <1>1, <1>11, Zenon DEF b7

(***************************************************************************)
(* Steps that do not change the namespace.                                 *)
(***************************************************************************)
Calm(s) == \A i \in 1 .. Len(s) : s[i].do \notin {"enter", "leave"}

(***************************************************************************)
(* Length and calm of steps after steps.                                   *)
(***************************************************************************)
LEMMA ConcatFacts ==
    ASSUME NEW s, NEW t, IsSeq(s), IsSeq(t)
    PROVE  /\ IsSeq(s \o t) /\ Len(s) \in Nat /\ Len(t) \in Nat
           /\ Len(s \o t) = Len(s) + Len(t)
           /\ Calm(s) /\ Calm(t) => Calm(s \o t)
<1>1. PICK S : s \in Seq(S) /\ t \in Seq(S) /\ s \o t \in Seq(S)
  <2>1. PICK A, B : s \in Seq(A) /\ t \in Seq(B)
    BY Zenon DEF IsSeq
  <2>2. s \in Seq(A \cup B) /\ t \in Seq(A \cup B)
    BY <2>1
  <2>3. s \o t \in Seq(A \cup B)
    BY <2>2
  <2> QED BY <2>2, <2>3
<1>2. PICK m \in Nat, n \in Nat : m = Len(s) /\ n = Len(t) /\ Len(s \o t) = m + n
  BY <1>1
<1>3. /\ \A i \in 1 .. m : (s \o t)[i] = s[i]
      /\ \A i \in m + 1 .. m + n : (s \o t)[i] = t[i - m]
  BY <1>1, <1>2
<1>4. ASSUME Calm(s), Calm(t), NEW i \in 1 .. m + n
      PROVE  (s \o t)[i].do \notin {"enter", "leave"}
  <2>1. CASE i <= m
    <3>1. i \in 1 .. m
      BY <2>1
    <3> QED BY <1>2, <1>3, <1>4, <3>1, Zenon DEF Calm
  <2>2. CASE i > m
    <3>1. i - m \in 1 .. n /\ i \in m + 1 .. m + n
      BY <2>2
    <3> QED BY <1>2, <1>3, <1>4, <3>1, Zenon DEF Calm
  <2>3. i <= m \/ i > m
    OBVIOUS
  <2> QED BY <2>1, <2>2, <2>3
<1> QED BY <1>1, <1>2, <1>4, Zenon DEF IsSeq, Calm

(***************************************************************************)
(* The constructor of an output: it gives everything back when it fails,   *)
(* leaves what its destructor frees, and stays in the namespace.           *)
(***************************************************************************)
GoodPart(s, destroy) == Leads(s, Empty, State(destroy, "own")) /\ Len(s) > 0

(***************************************************************************)
(* One step, or none.                                                      *)
(***************************************************************************)
LEMMA CalmWhen ==
    ASSUME NEW x, x.do \notin {"enter", "leave"}, NEW cond \in BOOLEAN
    PROVE  Calm(<<x>>) /\ Calm(When(cond, x))
<1>1. Calm(<<x>>)
  BY DEF Calm
<1>2. Calm(<<>>)
  BY DEF Calm
<1> QED BY <1>1, <1>2 DEF When

(***************************************************************************)
(* vxlan_output_new and gre_output_new, whichever options the socket has.  *)
(***************************************************************************)
LEMMA SocketLeads ==
    ASSUME NEW config, NEW kind, kind \notin {"enter", "leave"}
    PROVE  LET s == <<Call("address", {}), Step(kind, {"socket"}, {}, {})>>
                      \o SocketOptions(config)
                      \o <<Step("alloc", {"output"}, {}, {"socket"})>>
           IN GoodPart(s, {"socket", "output"}) /\ Calm(s)
<1> DEFINE x1 == Call("address", {})
           x2 == Step(kind, {"socket"}, {}, {})
           x3 == Call("bind", {"socket"})
           x4 == Call("pmtudisc", {"socket"})
           x5 == Step("alloc", {"output"}, {}, {"socket"})
           s1 == <<x1, x2>>
           s2 == When(config.bindDevice # "", x3)
           s3 == When(config.pmtudisc # "", x4)
           s4 == <<x5>>
           b1 == State({"socket"}, "own")
           b2 == State({"socket", "output"}, "own")
<1>1. Undone(x1, Empty) /\ Empty = Taken(x1, Empty) /\ Undone(x2, Empty) /\ b1 = Taken(x2, Empty)
  BY Zenon DEF Call, Step, Undone, Taken, State, Empty
<1>2. /\ Undone(x3, b1) /\ b1 = Taken(x3, b1) /\ Undone(x4, b1) /\ b1 = Taken(x4, b1)
      /\ Undone(x5, b1) /\ b2 = Taken(x5, b1)
  BY Zenon DEF Call, Step, Undone, Taken, State
<1>3. /\ x1.do \notin {"enter", "leave"} /\ x2.do \notin {"enter", "leave"}
      /\ x3.do \notin {"enter", "leave"} /\ x4.do \notin {"enter", "leave"}
      /\ x5.do \notin {"enter", "leave"}
  BY Zenon DEF Call, Step
<1> HIDE DEF x1, x2, x3, x4, x5, b1
<1>4. Leads(s1, Empty, b1)
  BY <1>1, LeadsTwo
<1>5. Leads(s2, b1, b1) /\ Leads(s3, b1, b1)
  BY <1>2, LeadsWhen, Zenon
<1>6. Leads(s4, b1, b2)
  BY <1>2, LeadsOne
<1>7. Calm(<<x1, x2>>) /\ Len(<<x1, x2>>) = 2
  BY <1>3 DEF Calm
<1>8. Calm(<<x5>>)
  BY <1>3, CalmWhen, Zenon
<1>9. Calm(s2) /\ Calm(s3)
  BY <1>3, CalmWhen
<1>9a. Calm(s1) /\ Len(s1) = 2 /\ Calm(s4)
  BY <1>7, <1>8, Zenon
<1> HIDE DEF s1, s2, s3, s4, b2
<1>10. IsSeq(s1) /\ IsSeq(s2) /\ IsSeq(s3) /\ IsSeq(s4)
  BY <1>4, <1>5, <1>6 DEF Leads
<1>11. Leads(s2 \o s3, b1, b1)
  BY <1>5, LeadsConcat, Zenon
<1>12. IsSeq(s2 \o s3) /\ Calm(s2 \o s3) /\ Len(s2 \o s3) \in Nat
  <2>1. IsSeq(s2 \o s3) /\ Calm(s2 \o s3)
    BY <1>9, <1>10, ConcatFacts, Zenon
  <2> QED BY <1>10, <2>1, ConcatFacts
<1>13. Leads(s1 \o (s2 \o s3), Empty, b1)
  BY <1>4, <1>11, LeadsConcat
<1>14. /\ IsSeq(s1 \o (s2 \o s3)) /\ Calm(s1 \o (s2 \o s3))
       /\ Len(s1 \o (s2 \o s3)) = 2 + Len(s2 \o s3)
  BY <1>9a, <1>10, <1>12, ConcatFacts, Zenon
<1>15. Leads((s1 \o (s2 \o s3)) \o s4, Empty, b2)
  BY <1>6, <1>13, LeadsConcat
<1>16. /\ Calm((s1 \o (s2 \o s3)) \o s4)
       /\ Len((s1 \o (s2 \o s3)) \o s4) = 2 + Len(s2 \o s3) + Len(s4)
       /\ Len(s4) \in Nat
  BY <1>9a, <1>10, <1>14, ConcatFacts, Zenon
<1>17. Len((s1 \o (s2 \o s3)) \o s4) > 0
  <2>1. PICK k \in Nat, l \in Nat : k = Len(s2 \o s3) /\ l = Len(s4)
    BY <1>12, <1>16, Zenon
  <2>2. 2 + k + l > 0
    OBVIOUS
  <2> QED BY <1>16, <2>1, <2>2
<1>18. SocketOptions(config) = s2 \o s3
  BY Zenon DEF SocketOptions, s2, s3, x3, x4
<1> QED BY <1>15, <1>16, <1>17, <1>18 DEF GoodPart, s1, s4, x1, x2, x5, b2

(***************************************************************************)
(* zmq_output_new.                                                         *)
(***************************************************************************)
LEMMA ZmqLeads == GoodPart(ZmqSteps, ZmqDestroy) /\ Calm(ZmqSteps)
<1> DEFINE x1 == Call("uuid", {})
           x2 == Step("context", {"context"}, {}, {})
           x3 == Step("pusher", {"pusher"}, {}, {"context"})
           x4 == Call("hwm", {"pusher", "context"})
           x5 == Call("linger", {"pusher", "context"})
           x6 == Call("connect", {"pusher", "context"})
           x7 == Step("alloc", {"output"}, {}, {"pusher", "context"})
           b1 == State({"context"}, "own")
           b2 == State({"pusher", "context"}, "own")
           b3 == State(ZmqDestroy, "own")
<1>1. Undone(x1, Empty) /\ Empty = Taken(x1, Empty) /\ Undone(x2, Empty) /\ b1 = Taken(x2, Empty)
  BY Zenon DEF Call, Step, Undone, Taken, State, Empty
<1>2. Undone(x3, b1) /\ b2 = Taken(x3, b1) /\ Undone(x4, b2) /\ b2 = Taken(x4, b2)
  BY Zenon DEF Call, Step, Undone, Taken, State
<1>3. Undone(x5, b2) /\ b2 = Taken(x5, b2) /\ Undone(x6, b2) /\ b2 = Taken(x6, b2)
  BY Zenon DEF Call, Step, Undone, Taken, State
<1>4. Undone(x7, b2) /\ b3 = Taken(x7, b2)
  BY Zenon DEF Step, Undone, Taken, State, ZmqDestroy
<1>5. \A x \in {x1, x2, x3, x4, x5, x6, x7} : x.do \notin {"enter", "leave"}
  BY DEF Call, Step
<1>6. ZmqSteps = <<x1, x2, x3, x4, x5, x6, x7>>
  BY Zenon DEF ZmqSteps
<1> HIDE DEF x1, x2, x3, x4, x5, x6, x7, b1, b2, b3
<1>7. Leads(<<x1, x2, x3, x4, x5, x6, x7>>, Empty, b3)
  BY <1>1, <1>2, <1>3, <1>4, LeadsSeven, Zenon
<1>8. Calm(<<x1, x2, x3, x4, x5, x6, x7>>) /\ Len(<<x1, x2, x3, x4, x5, x6, x7>>) > 0
  BY <1>5 DEF Calm
<1> QED BY <1>6, <1>7, <1>8 DEF GoodPart, b3

(***************************************************************************)
(* rotating_file_output_new.                                               *)
(***************************************************************************)
LEMMA RotatingFileLeads ==
    GoodPart(RotatingFileSteps, RotatingFileDestroy) /\ Calm(RotatingFileSteps)
<1> DEFINE x1 == Call("stat", {})
           x2 == Step("pcap", {"pcap"}, {}, {})
           x3 == Step("alloc", {"output", "root"}, {}, {"pcap"})
           b1 == State({"pcap"}, "own")
           b2 == State(RotatingFileDestroy, "own")
<1>1. Undone(x1, Empty) /\ Empty = Taken(x1, Empty) /\ Undone(x2, Empty) /\ b1 = Taken(x2, Empty)
  BY Zenon DEF Call, Step, Undone, Taken, State, Empty
<1>2. Undone(x3, b1) /\ b2 = Taken(x3, b1)
  BY Zenon DEF Step, Undone, Taken, State, RotatingFileDestroy
<1>3. \A x \in {x1, x2, x3} : x.do \notin {"enter", "leave"}
  BY DEF Call, Step
<1>4. RotatingFileSteps = <<x1, x2, x3>>
  BY Zenon DEF RotatingFileSteps
<1> HIDE DEF x1, x2, x3, b1, b2
<1>5. Leads(<<x1, x2, x3>>, Empty, b2)
  BY <1>1, <1>2, LeadsThree
<1>6. Calm(<<x1, x2, x3>>) /\ Len(<<x1, x2, x3>>) > 0
  BY <1>3 DEF Calm
<1> QED BY <1>4, <1>5, <1>6 DEF GoodPart, b2

(***************************************************************************)
(* An allocation that is a part by itself: the task, the array.            *)
(***************************************************************************)
LEMMA AllocLeads ==
    ASSUME NEW r
    PROVE  LET s == <<Step("alloc", {r}, {}, {})>> IN GoodPart(s, {r}) /\ Calm(s)
<1> DEFINE x == Step("alloc", {r}, {}, {})
           b == State({r}, "own")
<1>1. Undone(x, Empty) /\ b = Taken(x, Empty) /\ x.do \notin {"enter", "leave"}
  BY DEF Step, Undone, Taken, State, Empty
<1> HIDE DEF x, b
<1>2. Leads(<<x>>, Empty, b)
  BY <1>1, LeadsOne, Zenon
<1>3. Calm(<<x>>) /\ Len(<<x>>) > 0
  BY <1>1 DEF Calm
<1> QED BY <1>2, <1>3, Zenon DEF GoodPart, x, b

(***************************************************************************)
(* The capturer has steps.                                                 *)
(***************************************************************************)
LEMMA LibpcapGood ==
    ASSUME NEW task
    PROVE  GoodPart(LibpcapSteps(task), LibpcapDestroy)
<1>1. Leads(LibpcapSteps(task), Empty, State(LibpcapDestroy, "own"))
  BY LibpcapLeads
<1>2. PICK H : Trace(LibpcapSteps(task), Empty, State(LibpcapDestroy, "own"), H)
  BY <1>1, Zenon DEF Leads
<1>3. Len(LibpcapSteps(task)) \in Nat
  BY <1>1 DEF Leads, IsSeq
<1>4. Empty # State(LibpcapDestroy, "own")
  BY Zenon DEF Empty, State, LibpcapDestroy
<1>5. Len(LibpcapSteps(task)) # 0
  BY <1>2, <1>4 DEF Trace
<1> QED BY <1>1, <1>3, <1>5 DEF GoodPart


-----------------------------------------------------------------------------
(***************************************************************************)
(* A task that parse_tasks_json accepts.                                   *)
(***************************************************************************)
OutputTypes == {"vxlan", "gre", "zmq", "rotating_file"}

GoodTask(t) ==
    /\ IsArray(t.outputs)
    /\ \A i \in DOMAIN t.outputs : t.outputs[i].type \in OutputTypes

(***************************************************************************)
(* Every output that can be configured has a good constructor.             *)
(***************************************************************************)
LEMMA OutputGood ==
    ASSUME NEW o, o.type \in OutputTypes
    PROVE  GoodPart(OutputSteps(o), OutputDestroy(o)) /\ Calm(OutputSteps(o))
<1>1. CASE o.type = "vxlan"
  <2>1. OutputSteps(o) = VxlanSteps(o.config) /\ OutputDestroy(o) = VxlanDestroy
    BY <1>1, Zenon DEF OutputSteps, OutputDestroy
  <2>2. GoodPart(VxlanSteps(o.config), VxlanDestroy) /\ Calm(VxlanSteps(o.config))
    BY SocketLeads DEF VxlanSteps, VxlanDestroy
  <2> QED BY <2>1, <2>2, Zenon
<1>2. CASE o.type = "gre"
  <2>1. OutputSteps(o) = GreSteps(o.config) /\ OutputDestroy(o) = GreDestroy
    BY <1>2 DEF OutputSteps, OutputDestroy
  <2>2. GoodPart(GreSteps(o.config), GreDestroy) /\ Calm(GreSteps(o.config))
    BY SocketLeads, Zenon DEF GreSteps, GreDestroy
  <2> QED BY <2>1, <2>2
<1>3. CASE o.type = "zmq"
  <2>1. OutputSteps(o) = ZmqSteps /\ OutputDestroy(o) = ZmqDestroy
    BY <1>3, Zenon DEF OutputSteps, OutputDestroy
  <2> QED BY <2>1, ZmqLeads
<1>4. CASE o.type = "rotating_file"
  <2>1. OutputSteps(o) = RotatingFileSteps /\ OutputDestroy(o) = RotatingFileDestroy
    BY <1>4, Zenon DEF OutputSteps, OutputDestroy
  <2> QED BY <2>1, RotatingFileLeads
<1> QED BY <1>1, <1>2, <1>3, <1>4, Zenon DEF OutputTypes

(***************************************************************************)
(* Where the elements of two sequences are in their concatenation.         *)
(***************************************************************************)
Joined(u, s, f, m, n) ==
    /\ Len(u) = m + n
    /\ DOMAIN u = 1 .. m + n
    /\ \A p \in 1 .. m : u[p] = s[p]
    /\ \A p \in m + 1 .. m + n : u[p] = f[p - m]

LEMMA ConcatAt ==
    ASSUME NEW S, NEW s \in Seq(S), NEW f \in Seq(S), NEW m \in Nat, NEW n \in Nat, m = Len(s), n = Len(f)
    PROVE  Joined(s \o f, s, f, m, n)
<1>1. s \o f \in Seq(S)
  OBVIOUS
<1>2. Len(s \o f) = m + n
  OBVIOUS
<1>3. DOMAIN (s \o f) = 1 .. m + n
  BY <1>1, <1>2
<1>4. /\ \A p \in 1 .. m : (s \o f)[p] = s[p]
      /\ \A p \in m + 1 .. m + n : (s \o f)[p] = f[p - m]
  OBVIOUS
<1> QED BY <1>2, <1>3, <1>4 DEF Joined

(***************************************************************************)
(* The parts of a task: at least three, each of them good, and only the    *)
(* capturer leaves the namespace.                                          *)
(***************************************************************************)
LEMMA PartsFacts ==
    ASSUME NEW t, GoodTask(t)
    PROVE  /\ Len(Parts(t)) \in Nat /\ Len(Parts(t)) >= 3
           /\ DOMAIN Parts(t) = 1 .. Len(Parts(t))
           /\ \A p \in 1 .. Len(Parts(t)) :
                 /\ GoodPart(Parts(t)[p].steps, Parts(t)[p].destroy)
                 /\ p # 2 => Calm(Parts(t)[p].steps)
<1> DEFINE p1 == Part(<<Step("alloc", {"task"}, {}, {})>>, {"task"})
           p2 == Part(LibpcapSteps(t), LibpcapDestroy)
           p3 == Part(<<Step("alloc", {"array"}, {}, {})>>, {"array"})
           f == [i \in DOMAIN t.outputs |-> Part(OutputSteps(t.outputs[i]), OutputDestroy(t.outputs[i]))]
           Good(p) == GoodPart(p.steps, p.destroy)
<1>1. Parts(t) = <<p1, p2, p3>> \o f
  BY Zenon DEF Parts
<1>2. PICK n \in Nat : DOMAIN t.outputs = 1 .. n
  BY DEF GoodTask, IsArray
<1>3. /\ Good(p1) /\ Calm(p1.steps)
      /\ Good(p3) /\ Calm(p3.steps)
  BY AllocLeads, Zenon DEF Part
<1>4. Good(p2)
  BY LibpcapGood DEF Part
<1>5. \A i \in 1 .. n : Good(f[i]) /\ Calm(f[i].steps)
  BY <1>2, OutputGood, Zenon DEF GoodTask, Part
<1>6. DOMAIN f = 1 .. n /\ f = [i \in 1 .. n |-> f[i]]
  BY <1>2
<1> HIDE DEF p1, p2, p3, f
<1>7. f \in Seq({f[i] : i \in 1 .. n}) /\ Len(f) = n
  BY <1>6
<1>8. PICK S : <<p1, p2, p3>> \in Seq(S) /\ f \in Seq(S)
  <2> DEFINE A == {p1, p2, p3} \cup {f[i] : i \in 1 .. n}
  <2>1. <<p1, p2, p3>> \in Seq(A)
    OBVIOUS
  <2>2. f \in Seq(A)
    BY <1>6, <1>7
  <2> QED BY <2>1, <2>2, Zenon
<1>9. PICK s : s = <<p1, p2, p3>>
  OBVIOUS
<1>9a. s \in Seq(S)
  BY <1>8, <1>9, Zenon
<1>9b. Len(s) = 3 /\ s[1] = p1 /\ s[2] = p2 /\ s[3] = p3
  BY <1>9, Zenon
<1>10. /\ Len(s \o f) = 3 + n /\ DOMAIN (s \o f) = 1 .. 3 + n
       /\ \A p \in 1 .. 3 : (s \o f)[p] = s[p]
       /\ \A p \in 4 .. 3 + n : (s \o f)[p] = f[p - 3]
  <2>1. PICK m \in Nat : m = 3
    OBVIOUS
  <2>2. m = Len(s) /\ n = Len(f) /\ f \in Seq(S)
    BY <1>7, <1>8, <1>9b, <2>1, Zenon
  <2>3. Joined(s \o f, s, f, m, n)
    BY <1>9a, <2>2, ConcatAt, Zenon
  <2>4. m + 1 = 4
    BY <2>1
  <2> QED BY <2>1, <2>3, <2>4, Zenon DEF Joined
<1>11. ASSUME NEW p \in 1 .. 3 + n
       PROVE  Good((s \o f)[p]) /\ (p # 2 => Calm((s \o f)[p].steps))
  <2>1. CASE p \in 1 .. 3
    <3>1. p = 1 \/ p = 2 \/ p = 3
      BY <2>1
    <3>2. (s \o f)[p] = s[p]
      BY <1>10, <2>1, Zenon
    <3> HIDE DEF Good
    <3> QED BY <1>3, <1>4, <1>9b, <3>1, <3>2
  <2>2. CASE p \in 4 .. 3 + n
    <3>1. p - 3 \in 1 .. n
      BY <2>2
    <3>2. (s \o f)[p] = f[p - 3]
      BY <1>10, <2>2, Zenon
    <3> HIDE DEF Good
    <3> QED BY <1>5, <3>1, <3>2, Zenon
  <2>3. p \in 1 .. 3 \/ p \in 4 .. 3 + n
    OBVIOUS
  <2> QED BY <2>1, <2>2, <2>3, Zenon
<1>12. Parts(t) = s \o f
  BY <1>1, <1>9, Zenon
<1>13. 3 + n \in Nat /\ 3 + n >= 3
  OBVIOUS
<1> QED BY <1>10, <1>11, <1>12, <1>13

(***************************************************************************)
(* What a task holds when all parts before p are made.                     *)
(***************************************************************************)
Sofar(t, p) == UNION {Of(t, q, Parts(t)[q].destroy) : q \in 1 .. p - 1}

(***************************************************************************)
(* Resources are told apart by the task and the part they belong to.       *)
(***************************************************************************)
LEMMA OfFacts ==
    ASSUME NEW t, NEW p, NEW r
    PROVE  /\ \A x \in Of(t, p, r) : x[1] = t.fingerprint /\ x[2] = p
           /\ \A a, b : Of(t, p, (r \cup a) \ b) = (Of(t, p, r) \cup Of(t, p, a)) \ Of(t, p, b)
           /\ \A a : r \subseteq a => Of(t, p, r) \subseteq Of(t, p, a)
           /\ Of(t, p, {}) = {}
BY DEF Of

LEMMA SofarFacts ==
    ASSUME NEW t, NEW p \in Nat \ {0}
    PROVE  /\ \A x \in Sofar(t, p) : x[1] = t.fingerprint /\ x[2] # p
           /\ Sofar(t, 1) = {}
           /\ Sofar(t, p + 1) = Sofar(t, p) \cup Of(t, p, Parts(t)[p].destroy)
<1>1. ASSUME NEW x \in Sofar(t, p)
      PROVE  x[1] = t.fingerprint /\ x[2] # p
  <2>1. PICK q \in 1 .. p - 1 : x \in Of(t, q, Parts(t)[q].destroy)
    BY DEF Sofar
  <2>2. x[1] = t.fingerprint /\ x[2] = q
    BY <2>1, OfFacts
  <2>3. q # p
    OBVIOUS
  <2> QED BY <2>2, <2>3, Zenon
<1>2. Sofar(t, 1) = {}
  BY DEF Sofar
<1>3. 1 .. (p + 1) - 1 = (1 .. p - 1) \cup {p}
  OBVIOUS
<1>4. Sofar(t, p + 1) = Sofar(t, p) \cup Of(t, p, Parts(t)[p].destroy)
  BY <1>3, Zenon DEF Sofar
<1> QED BY <1>1, <1>2, <1>4

LEMMA OwnedTag ==
    ASSUME NEW A, NEW x \in Owned(A)
    PROVE  \E t \in A : x \in Owned({t}) /\ x[1] = t.fingerprint
<1>1. PICK t \in A : \E p \in DOMAIN Parts(t) : x \in Of(t, p, Parts(t)[p].destroy)
  BY DEF Owned
<1>2. PICK p \in DOMAIN Parts(t) : x \in Of(t, p, Parts(t)[p].destroy)
  BY <1>1, Zenon
<1>3. x[1] = t.fingerprint
  BY <1>2, OfFacts
<1>4. x \in Owned({t})
  BY <1>2 DEF Owned
<1> QED BY <1>3, <1>4, Zenon

LEMMA OwnedFacts ==
    ASSUME NEW A, NEW B
    PROVE  /\ \A t \in A : Owned({t}) \subseteq Owned(A)
           /\ Owned(A \cup B) = Owned(A) \cup Owned(B)
           /\ Owned({}) = {}
<1>2. \A t \in A : Owned({t}) \subseteq Owned(A)
  BY DEF Owned
<1>3. Owned(A \cup B) = Owned(A) \cup Owned(B)
  BY DEF Owned
<1>4. Owned({}) = {}
  BY Zenon DEF Owned
<1> QED BY <1>2, <1>3, <1>4, Zenon

(***************************************************************************)
(* Destroying tasks leaves what the others hold, when no other one has the *)
(* fingerprint of a destroyed one.                                         *)
(***************************************************************************)
LEMMA DestroyFacts ==
    ASSUME NEW A, NEW B, \A t \in A, u \in B : t.fingerprint # u.fingerprint
    PROVE  DestroyAll(Owned(A \cup B), B) = Owned(A)
<1>1. Owned(A) \cap Owned(B) = {}
  <2>1. ASSUME NEW x \in Owned(A), x \in Owned(B)
        PROVE  FALSE
    <3>1. PICK t \in A : x[1] = t.fingerprint
      BY OwnedTag, Zenon
    <3>2. PICK u \in B : x[1] = u.fingerprint
      BY <2>1, OwnedTag
    <3> QED BY <3>1, <3>2, Zenon
  <2> QED BY <2>1, Zenon
<1>2. Owned(A \cup B) = Owned(A) \cup Owned(B)
  BY OwnedFacts, Zenon
<1>3. DestroyAll(Owned(A \cup B), B) = Owned(A \cup B) \ Owned(B)
  BY DEF DestroyAll, Owned
<1> QED BY <1>1, <1>2, <1>3, Zenon

LEMMA SofarAll ==
    ASSUME NEW t, GoodTask(t)
    PROVE  Sofar(t, Len(Parts(t)) + 1) = Owned({t})
<1>1. PICK n \in Nat : n = Len(Parts(t)) /\ DOMAIN Parts(t) = 1 .. n
  BY PartsFacts, Zenon
<1>2. (n + 1) - 1 = n
  OBVIOUS
<1> QED BY <1>1, <1>2, Zenon DEF Sofar, Owned


-----------------------------------------------------------------------------
(***************************************************************************)
(* The creation of task t stands at x, h is held and the namespace is n,   *)
(* where base is what the other tasks hold.                                *)
(***************************************************************************)
Holds(h, t, p, base, r) == h = base \cup Sofar(t, p) \cup Of(t, p, r)

InPart(t, p, i, h, n, base) ==
    /\ p \in 1 .. Len(Parts(t))
    /\ i \in 1 .. Len(Parts(t)[p].steps)
    /\ \E H : /\ Trace(Parts(t)[p].steps, Empty, State(Parts(t)[p].destroy, "own"), H)
              /\ Holds(h, t, p, base, H[i].res)
              /\ n = H[i].ns
    /\ p # 2 => n = "own"

Complete(t, p, i, h, n, base) ==
    /\ p = Len(Parts(t)) + 1
    /\ i = 1
    /\ h = base \cup Owned({t})
    /\ n = "own"

Standing(t, x, h, n, base) ==
    /\ x = [part |-> x.part, step |-> x.step]
    /\ \/ InPart(t, x.part, x.step, h, n, base)
       \/ Complete(t, x.part, x.step, h, n, base)

Others(base, t) == \A x \in base : x[1] # t.fingerprint

(***************************************************************************)
(* A part starts with what the parts before it hold.                       *)
(***************************************************************************)
LEMMA StandAt ==
    ASSUME NEW t, GoodTask(t), NEW base, NEW p \in 1 .. Len(Parts(t)) + 1
    PROVE  Standing(t, [part |-> p, step |-> 1], base \cup Sofar(t, p), "own", base)
<1>0. Len(Parts(t)) \in Nat
  BY PartsFacts, Zenon
<1> DEFINE x == [part |-> p, step |-> 1]
<1>1. x.part = p /\ x.step = 1
  OBVIOUS
<1>2. CASE p = Len(Parts(t)) + 1
  <2>1. Complete(t, p, 1, base \cup Sofar(t, p), "own", base)
    BY <1>2, SofarAll DEF Complete
  <2> QED BY <1>1, <2>1, Zenon DEF Standing
<1>3. CASE p \in 1 .. Len(Parts(t))
  <2>1. GoodPart(Parts(t)[p].steps, Parts(t)[p].destroy)
    BY <1>3, PartsFacts
  <2>2. PICK H : Trace(Parts(t)[p].steps, Empty, State(Parts(t)[p].destroy, "own"), H)
    BY <2>1, Zenon DEF GoodPart, Leads
  <2>3. Len(Parts(t)[p].steps) \in Nat /\ Len(Parts(t)[p].steps) > 0
    BY <2>1 DEF GoodPart, Leads, IsSeq
  <2>4. H[1].res = {} /\ H[1].ns = "own"
    BY <2>2 DEF Trace, Empty, State
  <2>5. Holds(base \cup Sofar(t, p), t, p, base, H[1].res)
    BY <2>4, OfFacts, Zenon DEF Holds
  <2>6. 1 \in 1 .. Len(Parts(t)[p].steps)
    BY <2>3
  <2>7. InPart(t, p, 1, base \cup Sofar(t, p), "own", base)
    BY <1>3, <2>2, <2>4, <2>5, <2>6 DEF InPart
  <2> QED BY <1>1, <2>7, Zenon DEF Standing
<1> QED BY <1>0, <1>2, <1>3

(***************************************************************************)
(* The part that is under construction holds nothing of another task, nor  *)
(* of another part.                                                        *)
(***************************************************************************)
LEMMA HoldsApart ==
    ASSUME NEW t, NEW base, Others(base, t), NEW p \in Nat \ {0}
    PROVE  /\ base \cap Sofar(t, p) = {}
           /\ \A b : base \cap Of(t, p, b) = {} /\ Sofar(t, p) \cap Of(t, p, b) = {}
<1>1. \A x \in Sofar(t, p) : x[1] = t.fingerprint /\ x[2] # p
  BY SofarFacts
<1>2. ASSUME NEW b
      PROVE  base \cap Of(t, p, b) = {} /\ Sofar(t, p) \cap Of(t, p, b) = {}
  <2>1. \A x \in Of(t, p, b) : x[1] = t.fingerprint /\ x[2] = p
    BY OfFacts
  <2> QED BY <1>1, <2>1, Zenon DEF Others
<1> QED BY <1>1, <1>2 DEF Others

LEMMA HoldsStep ==
    ASSUME NEW t, NEW base, Others(base, t), NEW p \in Nat \ {0}, NEW h, NEW r, Holds(h, t, p, base, r),
           NEW k, NEW a, NEW b, k = (h \cup Of(t, p, a)) \ Of(t, p, b)
    PROVE  Holds(k, t, p, base, (r \cup a) \ b)
<1>1. Of(t, p, (r \cup a) \ b) = (Of(t, p, r) \cup Of(t, p, a)) \ Of(t, p, b)
  BY DEF Of
<1>2. base \cap Of(t, p, b) = {} /\ Sofar(t, p) \cap Of(t, p, b) = {}
  BY HoldsApart, Zenon
<1> QED BY <1>1, <1>2, Zenon DEF Holds

Freed(h, t, p, a, base) == Destroy(h \ Of(t, p, a), t, 1 .. p - 1) = base

LEMMA HoldsFail ==
    ASSUME NEW t, NEW base, Others(base, t), NEW p \in Nat \ {0}, NEW h, NEW r, Holds(h, t, p, base, r),
           NEW a, r \subseteq a
    PROVE  Freed(h, t, p, a, base)
<1>1. Of(t, p, r) \subseteq Of(t, p, a)
  BY Zenon DEF Of
<1>2. base \cap Of(t, p, a) = {} /\ base \cap Sofar(t, p) = {}
  BY HoldsApart, Zenon
<1>3. Destroy(h \ Of(t, p, a), t, 1 .. p - 1) = (h \ Of(t, p, a)) \ Sofar(t, p)
  BY Zenon DEF Destroy, Sofar
<1> QED BY <1>1, <1>2, <1>3, Zenon DEF Holds, Freed

(***************************************************************************)
(* A step that succeeds.                                                   *)
(***************************************************************************)
StepTo(t, x, h, n, y, k, m) ==
    LET part == Parts(t)[x.part]
        step == part.steps[x.step]
    IN /\ y = IF x.step < Len(part.steps) THEN [x EXCEPT !.step = @ + 1]
              ELSE [part |-> x.part + 1, step |-> 1]
       /\ k = (h \cup Of(t, x.part, step.take)) \ Of(t, x.part, step.drop)
       /\ m = CASE step.do = "enter" -> "target" [] step.do = "leave" -> "own" [] OTHER -> n

LEMMA StandStep ==
    ASSUME NEW t, GoodTask(t), NEW base, Others(base, t), NEW x, NEW h, NEW n,
           Standing(t, x, h, n, base), ~(x.part > Len(Parts(t))),
           NEW y, NEW k, NEW m, StepTo(t, x, h, n, y, k, m)
    PROVE  Standing(t, y, k, m, base)
<1>1. PICK L \in Nat : L = Len(Parts(t))
  BY PartsFacts, Zenon
<1>2. PICK p, i : p = x.part /\ i = x.step
  OBVIOUS
<1>3. InPart(t, p, i, h, n, base) /\ p \in 1 .. L
  BY <1>1, <1>2 DEF Standing, Complete, InPart
<1>4. PICK part : part = Parts(t)[p]
  OBVIOUS
<1>5. PICK step : step = part.steps[i]
  OBVIOUS
<1>6. GoodPart(part.steps, part.destroy) /\ (p # 2 => Calm(part.steps))
  BY <1>1, <1>3, <1>4, PartsFacts
<1>7. PICK l \in Nat : l = Len(part.steps)
  BY <1>6 DEF GoodPart, Leads, IsSeq
<1>8. PICK H : /\ Trace(part.steps, Empty, State(part.destroy, "own"), H)
               /\ Holds(h, t, p, base, H[i].res)
               /\ n = H[i].ns
  BY <1>3, <1>4 DEF InPart
<1>9. i \in 1 .. l
  BY <1>3, <1>4, <1>7 DEF InPart
<1>10. H[i + 1] = Taken(step, H[i])
  BY <1>5, <1>7, <1>8, <1>9 DEF Trace
<1>11. k = (h \cup Of(t, p, step.take)) \ Of(t, p, step.drop)
  BY <1>2, <1>4, <1>5 DEF StepTo
<1>12. m = CASE step.do = "enter" -> "target" [] step.do = "leave" -> "own" [] OTHER -> n
  BY <1>2, <1>4, <1>5, Zenon DEF StepTo
<1>13. H[i + 1].res = (H[i].res \cup step.take) \ step.drop /\ H[i + 1].ns = m
  <2>1. PICK a : a = H[i]
    OBVIOUS
  <2>2. H[i + 1] = Taken(step, a) /\ n = a.ns
    BY <1>8, <1>10, <2>1
  <2>3. Taken(step, a).res = (a.res \cup step.take) \ step.drop
    BY DEF Taken, State
  <2>4. Taken(step, a).ns = m
    BY <1>12, <2>2 DEF Taken, State
  <2> QED BY <2>1, <2>2, <2>3, <2>4
<1>0. p \in Nat \ {0}
  BY <1>3
<1>14. Holds(k, t, p, base, H[i + 1].res)
  <2>1. PICK r, u, v : r = H[i].res /\ u = step.take /\ v = step.drop
    OBVIOUS
  <2>2. Holds(h, t, p, base, r) /\ k = (h \cup Of(t, p, u)) \ Of(t, p, v)
    BY <1>8, <1>11, <2>1
  <2>3. Holds(k, t, p, base, (r \cup u) \ v)
    BY <1>0, <2>2, HoldsStep, Zenon
  <2> QED BY <1>13, <2>1, <2>3, Zenon
<1>15. p # 2 => m = "own"
  <2>1. p # 2 => n = "own"
    BY <1>3, Zenon DEF InPart
  <2>2. p # 2 => step.do \notin {"enter", "leave"}
    BY <1>5, <1>6, <1>7, <1>9 DEF Calm
  <2> QED BY <1>12, <2>1, <2>2
<1>16. CASE i < l
  <2>1. y = [part |-> p, step |-> i + 1]
    <3>1. x = [part |-> p, step |-> i]
      BY <1>2 DEF Standing
    <3>2. y = [x EXCEPT !.step = i + 1]
      BY <1>2, <1>4, <1>7, <1>16, Zenon DEF StepTo
    <3> QED BY <3>1, <3>2, Zenon
  <2>2. i + 1 \in 1 .. l
    BY <1>9, <1>16
  <2>3. InPart(t, p, i + 1, k, m, base)
    BY <1>1, <1>3, <1>4, <1>7, <1>8, <1>13, <1>14, <1>15, <2>2, Zenon DEF InPart
  <2>4. y.part = p /\ y.step = i + 1
    BY <2>1, Zenon
  <2> QED BY <2>1, <2>3, <2>4 DEF Standing
<1>17. CASE ~(i < l)
  <2>1. i = l
    BY <1>9, <1>17
  <2>2. y = [part |-> p + 1, step |-> 1]
    BY <1>2, <1>4, <1>7, <1>17, Zenon DEF StepTo
  <2>3. H[i + 1].res = part.destroy /\ m = "own"
    <3>1. H[i + 1] = State(part.destroy, "own")
      <4>1. H[Len(part.steps) + 1] = State(part.destroy, "own")
        BY <1>8, Zenon DEF Trace
      <4> QED BY <1>7, <2>1, <4>1
    <3>2. State(part.destroy, "own").res = part.destroy /\ State(part.destroy, "own").ns = "own"
      BY DEF State
    <3> QED BY <1>13, <3>1, <3>2, Zenon
  <2>4. k = base \cup Sofar(t, p + 1)
    <3>1. Sofar(t, p + 1) = Sofar(t, p) \cup Of(t, p, part.destroy)
      BY <1>0, <1>4, SofarFacts, Zenon
    <3>2. k = base \cup Sofar(t, p) \cup Of(t, p, part.destroy)
      BY <1>14, <2>3 DEF Holds
    <3> QED BY <3>1, <3>2
  <2>5. p + 1 \in 1 .. L + 1
    BY <1>3
  <2> QED BY <1>1, <2>2, <2>3, <2>4, <2>5, StandAt
<1> QED BY <1>16, <1>17

(***************************************************************************)
(* A step that fails leaves what the other tasks hold.                     *)
(***************************************************************************)
LEMMA StandFail ==
    ASSUME NEW t, GoodTask(t), NEW base, Others(base, t), NEW x, NEW h, NEW n,
           Standing(t, x, h, n, base), ~(x.part > Len(Parts(t))),
           Parts(t)[x.part].steps[x.step].do \notin {"done", "uuid", "leave"}
    PROVE  Destroy(h \ Of(t, x.part, Parts(t)[x.part].steps[x.step].undo), t, 1 .. x.part - 1) = base
<1>1. PICK L \in Nat : L = Len(Parts(t))
  BY PartsFacts, Zenon
<1>2. PICK p, i : p = x.part /\ i = x.step
  OBVIOUS
<1>3. InPart(t, p, i, h, n, base) /\ p \in 1 .. L
  BY <1>1, <1>2 DEF Standing, Complete, InPart
<1>4. PICK part : part = Parts(t)[p]
  OBVIOUS
<1>5. PICK step : step = part.steps[i]
  OBVIOUS
<1>6. PICK H : /\ Trace(part.steps, Empty, State(part.destroy, "own"), H)
               /\ Holds(h, t, p, base, H[i].res)
  BY <1>3, <1>4 DEF InPart
<1>7. i \in 1 .. Len(part.steps)
  BY <1>3, <1>4, Zenon DEF InPart
<1>8. Undone(step, H[i])
  BY <1>5, <1>6, <1>7 DEF Trace
<1>9. H[i].res \subseteq step.undo
  BY <1>2, <1>4, <1>5, <1>8, Zenon DEF Undone
<1>10. Destroy(h \ Of(t, p, step.undo), t, 1 .. p - 1) = base
  <2>1. p \in Nat \ {0}
    BY <1>3
  <2>2. PICK r, u : r = H[i].res /\ u = step.undo
    OBVIOUS
  <2>3. Holds(h, t, p, base, r) /\ r \subseteq u
    BY <1>6, <1>9, <2>2, Zenon
  <2>4. Freed(h, t, p, u, base)
    BY <2>1, <2>3, HoldsFail
  <2> QED BY <2>2, <2>4, Zenon DEF Freed
<1> QED BY <1>2, <1>4, <1>5, <1>10, Zenon


-----------------------------------------------------------------------------
(***************************************************************************)
(* The inductive invariant.  The tasks still to be made have fingerprints  *)
(* of their own, and none of a task made in this load; a task made in this *)
(* load has no fingerprint of a running one; and held is what the tasks    *)
(* own and what the constructor that is under way has come to.             *)
(***************************************************************************)
Queue(q) ==
    /\ IsSeq(q)
    /\ \A i \in 1 .. Len(q) : GoodTask(q[i])
    /\ \A i, j \in 1 .. Len(q) : q[i].fingerprint = q[j].fingerprint => i = j

Apart(q, tasks) == \A i \in 1 .. Len(q), t \in tasks : q[i].fingerprint # t.fingerprint

Distinct(A, B) == \A t \in A, u \in B : t.fingerprint # u.fingerprint

QueueInv == Queue(todo) /\ Apart(todo, fresh) /\ Distinct(live, fresh)

PhaseInv ==
    /\ phase \in {"idle", "loading"}
    /\ phase = "idle" => todo = <<>> /\ fresh = {} /\ at = Start

HeldInv ==
    /\ at = Start => held = Owned(live \cup fresh) /\ ns = "own"
    /\ at # Start => /\ phase = "loading" /\ todo # <<>> /\ ~Runs(Task)
                     /\ Standing(Task, at, held, ns, Owned(live \cup fresh))

DInv == QueueInv /\ PhaseInv /\ HeldInv

(***************************************************************************)
(* The queue without its first task.                                       *)
(***************************************************************************)
LEMMA QueueFacts ==
    ASSUME NEW q, Queue(q), q # <<>>, NEW f, Apart(q, f)
    PROVE  /\ GoodTask(Head(q))
           /\ Queue(Tail(q))
           /\ Apart(Tail(q), f)
           /\ Apart(Tail(q), f \cup {Head(q)})
           /\ \A t \in f : t.fingerprint # Head(q).fingerprint
<1>1. PICK S : q \in Seq(S)
  BY DEF Queue, IsSeq
<1>2. PICK n \in Nat : n = Len(q) /\ n > 0
  BY <1>1
<1>3. Head(q) = q[1] /\ 1 \in 1 .. n
  BY <1>1, <1>2
<1>4. PICK r : r = Tail(q)
  OBVIOUS
<1>5. r \in Seq(S) /\ Len(r) = n - 1
  BY <1>1, <1>2, <1>4
<1>6. \A i \in 1 .. n - 1 : r[i] = q[i + 1] /\ i + 1 \in 1 .. n /\ i + 1 # 1
  BY <1>1, <1>2, <1>4
<1>7. GoodTask(Head(q))
  BY <1>2, <1>3 DEF Queue
<1>8. IsSeq(r)
  BY <1>5, Zenon DEF IsSeq
<1>9. \A i \in 1 .. Len(r) : GoodTask(r[i])
  BY <1>2, <1>5, <1>6 DEF Queue
<1>10. ASSUME NEW i \in 1 .. Len(r), NEW j \in 1 .. Len(r), r[i].fingerprint = r[j].fingerprint
       PROVE  i = j
  <2>1. i + 1 = j + 1
    BY <1>2, <1>5, <1>6, <1>10 DEF Queue
  <2> QED BY <1>5, <2>1
<1>11. Queue(r)
  BY <1>8, <1>9, <1>10 DEF Queue
<1>12. Apart(r, f)
  BY <1>2, <1>5, <1>6 DEF Apart
<1>13. \A i \in 1 .. Len(r) : r[i].fingerprint # q[1].fingerprint
  BY <1>2, <1>3, <1>5, <1>6 DEF Queue
<1>14. Apart(r, f \cup {Head(q)})
  BY <1>3, <1>12, <1>13, Zenon DEF Apart
<1>15. \A t \in f : t.fingerprint # Head(q).fingerprint
  BY <1>2, <1>3 DEF Apart
<1> QED BY <1>4, <1>7, <1>11, <1>12, <1>14, <1>15

(***************************************************************************)
(* The tasks of a file that is accepted.                                   *)
(***************************************************************************)
LEMMA PlanQueue ==
    ASSUME NEW obj, ConfigOk(obj)
    PROVE  LET tasks == ParseConfig(obj).tasks
           IN Queue([i \in DOMAIN tasks |-> Filtered(tasks[i], tasks)])
<1>1. PICK objs : objs = obj.tasks
  OBVIOUS
<1>2. PICK n \in Nat : DOMAIN objs = 1 .. n
  BY <1>1 DEF ConfigOk, TasksOk, IsArray
<1>3. PICK tasks : tasks = ParseTasks(objs)
  OBVIOUS
<1>4. ParseConfig(obj).tasks = tasks
  BY <1>1, <1>3, Zenon DEF ParseConfig
<1>5. DOMAIN tasks = 1 .. n /\ \A i \in 1 .. n : tasks[i] = ParseTask(objs[i])
  BY <1>2, <1>3 DEF ParseTasks
<1> DEFINE q == [i \in DOMAIN tasks |-> Filtered(tasks[i], tasks)]
<1>6. q \in Seq({q[i] : i \in 1 .. n}) /\ Len(q) = n /\ \A i \in 1 .. n : q[i] = Filtered(tasks[i], tasks)
  BY <1>5
<1> HIDE DEF q
<1>7. ASSUME NEW i \in 1 .. n
      PROVE  q[i].fingerprint = objs[i].fingerprint /\ GoodTask(q[i])
  <2>1. q[i].fingerprint = tasks[i].fingerprint /\ q[i].outputs = tasks[i].outputs
    BY <1>6 DEF Filtered
  <2>2. PICK o : o = objs[i]
    OBVIOUS
  <2>3. /\ tasks[i].fingerprint = o.fingerprint
        /\ tasks[i].outputs = [j \in DOMAIN o.outputs |-> ParseOutput(o.outputs[j])]
    BY <1>5, <2>2 DEF ParseTask
  <2>4. IsArray(o.outputs) /\ \A j \in DOMAIN o.outputs : OutputOk(o.outputs[j])
    BY <1>1, <1>2, <2>2, Zenon DEF ConfigOk, TasksOk, TaskOk
  <2>5. PICK m \in Nat : DOMAIN o.outputs = 1 .. m
    <3>1. PICK v : v = o.outputs /\ IsArray(v)
      BY <2>4
    <3>2. \E m \in Nat : DOMAIN v = 1 .. m
      BY <3>1 DEF IsArray
    <3> QED BY <3>1, <3>2, Zenon
  <2>6. PICK outs : outs = [j \in 1 .. m |-> ParseOutput(o.outputs[j])]
    OBVIOUS
  <2>7. q[i].outputs = outs
    BY <2>1, <2>3, <2>5, <2>6
  <2>8. DOMAIN outs = 1 .. m /\ IsArray(outs)
    BY <2>6 DEF IsArray
  <2>9. ASSUME NEW j \in 1 .. m
        PROVE  outs[j].type \in OutputTypes
    <3>1. outs[j].type = o.outputs[j].type
      BY <2>6, Zenon DEF ParseOutput
    <3>2. OutputOk(o.outputs[j])
      BY <2>4, <2>5
    <3>3. o.outputs[j].type \in OutputTypes
      BY <3>2, Zenon DEF OutputOk, OutputTypes
    <3> QED BY <3>1, <3>3
  <2> QED BY <2>1, <2>2, <2>3, <2>7, <2>8, <2>9 DEF GoodTask
<1>8. \A i, j \in 1 .. n : objs[i].fingerprint = objs[j].fingerprint => i = j
  BY <1>1, <1>2 DEF ConfigOk, TasksOk
<1>9. Queue(q)
  BY <1>6, <1>7, <1>8, Zenon DEF Queue, IsSeq
<1> QED BY <1>4, <1>9 DEF q

(***************************************************************************)
(* While a task is made, its creation stands somewhere, and what the other *)
(* tasks hold is not its own.                                              *)
(***************************************************************************)
LEMMA MakingFacts ==
    ASSUME DInv, Making
    PROVE  /\ GoodTask(Task)
           /\ Others(Owned(live \cup fresh), Task)
           /\ Standing(Task, at, held, ns, Owned(live \cup fresh))
           /\ \A t \in live : t.fingerprint # Task.fingerprint
<1>1. PICK t, base : t = Task /\ base = Owned(live \cup fresh)
  OBVIOUS
<1>2. GoodTask(t) /\ \A u \in fresh : u.fingerprint # t.fingerprint
  BY <1>1, QueueFacts, Zenon DEF DInv, QueueInv, Making, Task
<1>3. \A u \in live : u.fingerprint # t.fingerprint
  BY <1>1 DEF Making, Runs
<1>4. Others(base, t)
  <2>1. ASSUME NEW x \in base
        PROVE  x[1] # t.fingerprint
    <3>1. PICK u \in live \cup fresh : x[1] = u.fingerprint
      BY <1>1, OwnedTag, Zenon
    <3> QED BY <1>2, <1>3, <3>1
  <2> QED BY <2>1, Zenon DEF Others
<1>5. Standing(t, at, held, ns, base)
  <2>1. CASE at # Start
    BY <1>1, <2>1, Zenon DEF DInv, HeldInv
  <2>2. CASE at = Start
    <3>1. held = base /\ ns = "own"
      BY <1>1, <2>2 DEF DInv, HeldInv
    <3>2. Len(Parts(t)) \in Nat
      BY <1>2, PartsFacts, Zenon
    <3>3. 1 \in 1 .. Len(Parts(t)) + 1 /\ 1 \in Nat \ {0}
      BY <3>2
    <3>4. Standing(t, [part |-> 1, step |-> 1], base \cup Sofar(t, 1), "own", base)
      BY <1>2, <3>3, StandAt, Zenon
    <3>5. base \cup Sofar(t, 1) = base
      BY <3>3, SofarFacts, Zenon
    <3> QED BY <2>2, <3>1, <3>4, <3>5 DEF Start
  <2> QED BY <2>1, <2>2
<1> QED BY <1>1, <1>2, <1>3, <1>4, <1>5


(***************************************************************************)
(* Back to idle, with the running tasks holding everything.                *)
(***************************************************************************)
LEMMA IdleStep ==
    ASSUME Idle, held' = Owned(live'), ns' = "own"
    PROVE  DInv'
<1>1. Queue(todo')
  <2>1. todo' = <<>> /\ <<>> \in Seq({}) /\ Len(<<>>) = 0
    BY DEF Idle
  <2>2. 1 .. 0 = {}
    OBVIOUS
  <2> QED BY <2>1, <2>2, Zenon DEF Queue, IsSeq
<1>2. Apart(todo', fresh') /\ Distinct(live', fresh')
  BY DEF Idle, Apart, Distinct
<1>3. QueueInv'
  BY <1>1, <1>2, Zenon DEF QueueInv
<1>4. PhaseInv'
  BY Zenon DEF Idle, PhaseInv
<1>5. live' \cup fresh' = live'
  BY Zenon DEF Idle
<1>6. HeldInv'
  BY <1>5 DEF Idle, HeldInv, Owned, Start
<1> QED BY <1>3, <1>4, <1>6 DEF DInv

LEMMA StopStep ==
    ASSUME DInv, phase = "idle", StopWorker
    PROVE  DInv'
<1>1. held = Owned(live) /\ ns = "own"
  <2>1. fresh = {} /\ at = Start
    BY Zenon DEF DInv, PhaseInv
  <2>2. live \cup fresh = live
    BY <2>1
  <2> QED BY <2>1, <2>2 DEF DInv, HeldInv
<1>2. held' = {} /\ Owned(live') = {}
  <2>1. held' = Owned(live) \ Owned(live)
    BY <1>1 DEF StopWorker, DestroyAll, Owned
  <2>2. live' = {} /\ Owned({}) = {}
    BY Zenon DEF StopWorker, Owned
  <2>3. Owned(live)' = Owned(live')
    BY DEF Owned
  <2> QED BY <2>1, <2>2
<1>3. Idle /\ ns' = "own"
  BY <1>1, Zenon DEF StopWorker
<1> QED BY <1>2, <1>3, IdleStep, Zenon

LEMMA LoadStep ==
    ASSUME DInv, Load
    PROVE  DInv'
<1>1. phase = "idle"
  BY Zenon DEF Load
<1>2. CASE StopWorker
  BY <1>1, <1>2, StopStep
<1>3. ASSUME NEW asked, NEW obj, ReadFile(asked, obj)
      PROVE  DInv'
  <2>1. /\ fresh' = fresh /\ at' = at /\ held' = held /\ ns' = ns /\ live' = live
        /\ fresh = {} /\ at = Start /\ todo = <<>>
    BY <1>1, <1>3 DEF ReadFile, DInv, PhaseInv
  <2>2. HeldInv'
    BY <2>1, Zenon DEF DInv, HeldInv, Start, Owned
  <2>3. CASE ReadFails(obj)
    <3>1. phase' = phase /\ todo' = todo
      BY <2>3, Zenon DEF ReadFails
    <3>2. QueueInv' /\ PhaseInv'
      BY <2>1, <3>1 DEF DInv, QueueInv, PhaseInv, Start
    <3> QED BY <2>2, <3>2 DEF DInv
  <2>4. CASE Plan(asked, obj)
    <3>1. Queue(todo') /\ phase' = "loading"
      BY <2>4, PlanQueue DEF Plan
    <3>2. Apart(todo', fresh') /\ Distinct(live', fresh')
      BY <2>1, Zenon DEF Apart, Distinct
    <3>3. QueueInv' /\ PhaseInv'
      BY <3>1, <3>2 DEF QueueInv, PhaseInv
    <3> QED BY <2>2, <3>3 DEF DInv
  <2> QED BY <1>3, <2>3, <2>4, Zenon DEF ReadFile
<1>4. PICK asked : \/ StopWorker
                   \/ ReadFile(asked, NewWorkerConfig(Build(asked, BufferSizeMb)))
  BY Zenon DEF Load
<1> QED BY <1>2, <1>3, <1>4

LEMMA ReuseStep ==
    ASSUME DInv, ReuseTask
    PROVE  DInv'
<1>1. /\ phase' = phase /\ live' = live /\ fresh' = fresh /\ at' = at /\ held' = held /\ ns' = ns
      /\ todo' = Tail(todo) /\ todo # <<>> /\ phase = "loading" /\ Runs(Task)
  BY Zenon DEF ReuseTask
<1>2. at = Start
  BY <1>1 DEF DInv, HeldInv
<1>3. Queue(Tail(todo)) /\ Apart(Tail(todo), fresh)
  BY <1>1, QueueFacts DEF DInv, QueueInv
<1>4. QueueInv' /\ PhaseInv'
  BY <1>1, <1>3 DEF DInv, QueueInv, PhaseInv, Distinct
<1>5. HeldInv'
  BY <1>1, <1>2, Zenon DEF DInv, HeldInv, Start, Owned
<1> QED BY <1>4, <1>5 DEF DInv

LEMMA SucceedStep ==
    ASSUME DInv, StepSucceeds
    PROVE  DInv'
<1>0. Making /\ ~(at.part > Len(Parts(Task)))
  BY Zenon DEF StepSucceeds, Made, Making
<1>1. /\ phase' = phase /\ live' = live /\ fresh' = fresh /\ todo' = todo
      /\ todo # <<>> /\ phase = "loading"
  BY <1>0, Zenon DEF StepSucceeds, Making
<1>2. PICK t, base : t = Task /\ base = Owned(live \cup fresh)
  OBVIOUS
<1>3. GoodTask(t) /\ Others(base, t) /\ Standing(t, at, held, ns, base)
  BY <1>0, <1>2, MakingFacts
<1>4. StepTo(t, at, held, ns, at', held', ns')
  BY <1>2, Zenon DEF StepSucceeds, StepTo, Advance, Part1, Step1
<1>5. ~(at.part > Len(Parts(t)))
  BY <1>0, <1>2
<1>6. PICK y, k, m : y = at' /\ k = held' /\ m = ns'
  OBVIOUS
<1>7. PICK x, h, n : x = at /\ h = held /\ n = ns
  OBVIOUS
<1>8. Standing(t, y, k, m, base)
  BY <1>3, <1>4, <1>5, <1>6, <1>7, StandStep
<1>9. at' # Start
  <2>1. PICK L \in Nat : L = Len(Parts(t)) /\ L >= 3
    BY <1>3, PartsFacts
  <2>2. PICK p, i : p = at.part /\ i = at.step
    OBVIOUS
  <2>3. p \in Nat /\ i \in Nat /\ p > 0 /\ i > 0
    <3>1. CASE InPart(t, p, i, held, ns, base)
      BY <2>1, <3>1 DEF InPart
    <3>2. CASE Complete(t, p, i, held, ns, base)
      BY <2>1, <3>2 DEF Complete
    <3> QED BY <1>3, <2>2, <3>1, <3>2 DEF Standing
  <2>4. at' = [part |-> p, step |-> i + 1] \/ at' = [part |-> p + 1, step |-> 1]
    <3>1. at = [part |-> p, step |-> i]
      BY <1>3, <2>2, Zenon DEF Standing
    <3>2. at' = [at EXCEPT !.step = i + 1] \/ at' = [part |-> p + 1, step |-> 1]
      BY <2>2 DEF StepSucceeds, Advance
    <3> QED BY <3>1, <3>2
  <2>5. (at'.part = p /\ at'.step = i + 1) \/ (at'.part = p + 1 /\ at'.step = 1)
    BY <2>4
  <2>6. Start.part = 1 /\ Start.step = 1
    BY Zenon DEF Start
  <2> QED BY <2>3, <2>5, <2>6
<1>10. QueueInv' /\ PhaseInv'
  BY <1>1 DEF DInv, QueueInv, PhaseInv, Distinct
<1>11. Task' = Task /\ Owned(live \cup fresh)' = Owned(live \cup fresh) /\ Runs(Task)' = Runs(Task)
  BY <1>1, Zenon DEF Task, Owned, Runs
<1>12. ~Runs(Task)
  BY <1>0 DEF Making
<1>13. Standing(Task, at, held, ns, Owned(live \cup fresh))'
  BY <1>2, <1>6, <1>8, <1>11, Zenon
<1>14. HeldInv'
  BY <1>1, <1>9, <1>11, <1>12, <1>13 DEF HeldInv, Start
<1> QED BY <1>10, <1>14 DEF DInv

LEMMA FailStep ==
    ASSUME DInv, StepFails
    PROVE  DInv'
<1>0. Making /\ ~(at.part > Len(Parts(Task)))
  BY DEF StepFails, Made, Making
<1>1. /\ phase' = phase /\ live' = live /\ fresh' = fresh /\ todo' = Tail(todo) /\ at' = Start
      /\ todo # <<>> /\ phase = "loading" /\ ns' = "own"
  BY <1>0 DEF StepFails, Making
<1>2. PICK t, base : t = Task /\ base = Owned(live \cup fresh)
  OBVIOUS
<1>3. GoodTask(t) /\ Others(base, t) /\ Standing(t, at, held, ns, base)
  BY <1>0, <1>2, MakingFacts
<1>4. Parts(t)[at.part].steps[at.step].do \notin {"done", "uuid", "leave"}
  BY <1>2 DEF StepFails, Infallible, Step1, Part1
<1>5. PICK x, h, n : x = at /\ h = held /\ n = ns
  OBVIOUS
<1>6. Destroy(h \ Of(t, x.part, Parts(t)[x.part].steps[x.step].undo), t, 1 .. x.part - 1) = base
  BY <1>0, <1>2, <1>3, <1>4, <1>5, StandFail
<1>7. held' = base
  BY <1>2, <1>5, <1>6 DEF StepFails, Step1, Part1
<1>8. Queue(Tail(todo)) /\ Apart(Tail(todo), fresh)
  BY <1>1, QueueFacts, Zenon DEF DInv, QueueInv
<1>9. QueueInv' /\ PhaseInv'
  BY <1>1, <1>8 DEF DInv, QueueInv, PhaseInv, Distinct
<1>10. Owned(live \cup fresh)' = Owned(live \cup fresh)
  BY <1>1, Zenon DEF Owned
<1>11. HeldInv'
  BY <1>1, <1>2, <1>7, <1>10 DEF HeldInv, Start
<1> QED BY <1>9, <1>11 DEF DInv

LEMMA ExitStep ==
    ASSUME Exit
    PROVE  DInv'
<1>1. Idle /\ live' = {} /\ held' = {} /\ ns' = "own"
  BY Zenon DEF Exit
<1>2. Owned({}) = {}
  BY DEF Owned
<1>3. held' = Owned(live')
  BY <1>1, <1>2
<1> QED BY <1>1, <1>3, IdleStep

(***************************************************************************)
(* A task that is made stands behind its last part.                        *)
(***************************************************************************)
LEMMA MadeFacts ==
    ASSUME DInv, Making, Made
    PROVE  held = Owned(live \cup (fresh \cup {Task})) /\ ns = "own"
<1>1. PICK t, base : t = Task /\ base = Owned(live \cup fresh)
  OBVIOUS
<1>2. GoodTask(t) /\ Standing(t, at, held, ns, base)
  BY <1>1, MakingFacts
<1>3. PICK L \in Nat : L = Len(Parts(t))
  BY <1>2, PartsFacts
<1>4. at.part > L
  BY <1>1, <1>3, Zenon DEF Made
<1>5. Complete(t, at.part, at.step, held, ns, base)
  BY <1>2, <1>3, <1>4 DEF Standing, InPart
<1>6. held = base \cup Owned({t}) /\ ns = "own"
  BY <1>5 DEF Complete
<1>7. live \cup (fresh \cup {t}) = (live \cup fresh) \cup {t}
  OBVIOUS
<1>8. Owned((live \cup fresh) \cup {t}) = base \cup Owned({t})
  BY <1>1, OwnedFacts
<1> QED BY <1>1, <1>6, <1>7, <1>8

LEMMA AddStep ==
    ASSUME DInv, AddTask
    PROVE  DInv'
<1>1. /\ phase' = phase /\ live' = live /\ fresh' = fresh \cup {Task} /\ todo' = Tail(todo)
      /\ at' = Start /\ held' = held /\ ns' = ns
      /\ todo # <<>> /\ phase = "loading" /\ Making /\ Made
  BY DEF AddTask, Making
<1>2. held = Owned(live \cup (fresh \cup {Task})) /\ ns = "own"
  BY <1>1, MadeFacts, Zenon
<1>3. Queue(Tail(todo)) /\ Apart(Tail(todo), fresh \cup {Head(todo)})
  BY <1>1, QueueFacts DEF DInv, QueueInv
<1>4. Distinct(live, fresh \cup {Task})
  <2>1. \A t \in live : t.fingerprint # Task.fingerprint
    BY <1>1, MakingFacts
  <2> QED BY <2>1, Zenon DEF DInv, QueueInv, Distinct
<1>5. QueueInv' /\ PhaseInv'
  BY <1>1, <1>3, <1>4, Zenon DEF DInv, QueueInv, PhaseInv, Distinct, Task
<1>6. Owned(live \cup fresh)' = Owned(live \cup (fresh \cup {Task}))
  BY <1>1 DEF Owned
<1>7. HeldInv'
  BY <1>1, <1>2, <1>6 DEF HeldInv, Start
<1> QED BY <1>5, <1>7 DEF DInv

LEMMA AbortStep ==
    ASSUME DInv, Abort
    PROVE  DInv'
<1>1. Idle /\ live' = live /\ ns' = ns /\ phase = "loading"
  BY DEF Abort
<1>2. PICK new : /\ held = Owned(live \cup new) /\ held' = DestroyAll(held, new) /\ ns = "own"
                 /\ Distinct(live, new)
  <2>1. CASE at = Start
    <3>1. held' = DestroyAll(held, fresh)
      <4>1. fresh \cup {} = fresh
        OBVIOUS
      <4> QED BY <2>1, <4>1, Zenon DEF Abort
    <3> QED BY <2>1, <3>1 DEF DInv, HeldInv, QueueInv
  <2>2. CASE at # Start
    <3>1. Made /\ held' = DestroyAll(held, fresh \cup {Task})
      BY <2>2 DEF Abort
    <3>2. Making
      BY <2>2, Zenon DEF DInv, HeldInv, Making
    <3>3. held = Owned(live \cup (fresh \cup {Task})) /\ ns = "own"
      BY <3>1, <3>2, MadeFacts
    <3>4. Distinct(live, fresh \cup {Task})
      <4>1. \A t \in live : t.fingerprint # Task.fingerprint
        BY <3>2, MakingFacts
      <4> QED BY <4>1 DEF DInv, QueueInv, Distinct
    <3> QED BY <3>1, <3>3, <3>4
  <2> QED BY <2>1, <2>2
<1>3. held' = Owned(live)
  BY <1>2, DestroyFacts, Zenon DEF Distinct
<1>4. held' = Owned(live')
  BY <1>1, <1>3
<1> QED BY <1>1, <1>2, <1>4, IdleStep

LEMMA FinishStep ==
    ASSUME DInv, Finish
    PROVE  DInv'
<1>1. /\ Idle /\ live' = Survivors \cup fresh /\ held' = DestroyAll(held, live \ Survivors)
      /\ ns' = ns /\ todo = <<>>
  BY DEF Finish
<1>2. held = Owned(live \cup fresh) /\ ns = "own"
  BY <1>1, Zenon DEF DInv, HeldInv
<1>3. PICK old, kept : kept = Survivors /\ old = live \ kept
  OBVIOUS
<1>4. kept \subseteq live
  BY <1>3, Zenon DEF Survivors
<1>5. \A t \in kept \cup fresh, u \in old : t.fingerprint # u.fingerprint
  <2>1. \A t \in kept, u \in old : t.fingerprint # u.fingerprint
    BY <1>3, Zenon DEF Survivors
  <2>2. \A t \in fresh, u \in old : t.fingerprint # u.fingerprint
    BY <1>3 DEF DInv, QueueInv, Distinct
  <2> QED BY <2>1, <2>2
<1>6. live \cup fresh = (kept \cup fresh) \cup old
  BY <1>3, <1>4
<1>7. DestroyAll(Owned((kept \cup fresh) \cup old), old) = Owned(kept \cup fresh)
  BY <1>5, DestroyFacts
<1>8. held' = Owned(live')
  BY <1>1, <1>2, <1>3, <1>6, <1>7, Zenon
<1> QED BY <1>1, <1>2, <1>8, IdleStep, Zenon

(***************************************************************************)
(* Whatever call of whatever constructor fails, and whatever strategies    *)
(* are loaded: between two tasks, what is held is what the tasks that      *)
(* exist hold and the thread is in its own namespace, and an output is     *)
(* never created in another one (capture_task_new, its error paths, and    *)
(* reclaim_old_resources).                                                 *)
(***************************************************************************)
THEOREM NothingLeaks == Spec => []NoLeak
<1>1. Init => DInv
  <2>1. SUFFICES ASSUME Init PROVE DInv
    OBVIOUS
  <2>2. Queue(todo)
    <3>1. todo = <<>> /\ <<>> \in Seq({}) /\ Len(<<>>) = 0
      BY <2>1 DEF Init
    <3>2. 1 .. 0 = {}
      OBVIOUS
    <3> QED BY <3>1, <3>2 DEF Queue, IsSeq
  <2>3. QueueInv
    BY <2>1, <2>2 DEF Init, QueueInv, Apart, Distinct
  <2>4. PhaseInv
    BY <2>1 DEF Init, PhaseInv
  <2>5. HeldInv
    BY <2>1, Zenon DEF Init, HeldInv, Owned
  <2> QED BY <2>3, <2>4, <2>5 DEF DInv
<1>2. DInv /\ [Next]_vars => DInv'
  <2>1. SUFFICES ASSUME DInv, [Next]_vars PROVE DInv'
    OBVIOUS
  <2>2. CASE UNCHANGED vars
    <3>1. QueueInv' /\ PhaseInv'
      BY <2>1, <2>2 DEF DInv, vars, QueueInv, PhaseInv, Start
    <3>2. HeldInv'
      BY <2>1, <2>2, Zenon DEF DInv, vars, HeldInv, Start, Runs, Task, Owned
    <3> QED BY <3>1, <3>2 DEF DInv
  <2>3. CASE Stop
    BY <2>1, <2>3, StopStep DEF Stop
  <2> QED BY <2>1, <2>2, <2>3, LoadStep, ReuseStep, SucceedStep, FailStep, ExitStep, AddStep,
             AbortStep, FinishStep DEF Next
<1>3. DInv => NoLeak
  <2>1. SUFFICES ASSUME DInv PROVE NoLeak
    OBVIOUS
  <2>2. ASSUME at.part > 2
        PROVE  ns = "own"
    <3>1. CASE at = Start
      BY <2>1, <3>1 DEF DInv, HeldInv
    <3>2. CASE at # Start
      <4>1. Standing(Task, at, held, ns, Owned(live \cup fresh))
        BY <2>1, <3>2 DEF DInv, HeldInv
      <4>2. at.part # 2
        BY <2>2
      <4> QED BY <4>1, <4>2, Zenon DEF Standing, InPart, Complete
    <3> QED BY <3>1, <3>2
  <2> QED BY <2>1, <2>2, Zenon DEF DInv, HeldInv, NoLeak
<1> QED BY <1>1, <1>2, <1>3, PTL DEF Spec
=============================================================================
