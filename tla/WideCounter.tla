----------------------------- MODULE WideCounter -----------------------------
(***************************************************************************)
(* The statistics counters: a low part below a base, and a high part that  *)
(* takes its carries (cpworker/src/stats.c), and the difference the daemon *)
(* takes of two snapshots (cpgolib/cpworker/stats.go).  The code has one   *)
(* copy for bytes (base 2^60) and one for packets (base 10^16).            *)
(***************************************************************************)
EXTENDS Integers

CONSTANT Base

ASSUME BaseAssumption == Base \in Nat \ {0}

Counter == [lo : 0 .. Base - 1, hi : Nat]

ZeroCounter == [lo |-> 0, hi |-> 0]

Value(c) == c.hi * Base + c.lo

Add(c, n) ==
    LET lo == c.lo + (n % Base)
        carry == IF lo >= Base THEN 1 ELSE 0
    IN [lo |-> lo - carry * Base, hi |-> c.hi + n \div Base + carry]

Merge(c, d) ==
    [lo |-> (c.lo + d.lo) % Base, hi |-> c.hi + d.hi + (c.lo + d.lo) \div Base]

Less(c, d) == c.hi < d.hi \/ (c.hi = d.hi /\ c.lo < d.lo)

(***************************************************************************)
(* Sub returns the distance of the two snapshots, and whether the first is *)
(* the smaller one (the worker restarted in between).                      *)
(***************************************************************************)
Distance(x, y) ==
    IF x.lo < y.lo THEN [lo |-> Base + x.lo - y.lo, hi |-> x.hi - y.hi - 1]
                   ELSE [lo |-> x.lo - y.lo, hi |-> x.hi - y.hi]

Sub(c, d) ==
    IF Less(c, d) THEN [diff |-> Distance(d, c), less |-> TRUE]
                  ELSE [diff |-> Distance(c, d), less |-> FALSE]
=============================================================================
